---- MODULE Spec2Model ----
(***************************************************************************)
(* Model of parallel_llm_processor.                                        *)
(*   Spec          the batch engine (src/src/processor.ts): discovery,     *)
(*                 processAll and processCSVRows with their per-item tasks *)
(*   SpecDiscovery findPromptFiles over arbitrary directory listings       *)
(*   SpecRequest   the chat-completion request built by the three          *)
(*                 processors                                              *)
(*   SpecContext   processContextualPrompt's message assembly              *)
(*   SpecConfig    getConfiguration (src/src/cli.ts) and the model cache   *)
(*   SpecFair      Spec with weak fairness of its steps (termination)      *)
(*   SpecCombine   combineFilesToCSV: headers and rows of the CSV          *)
(*   SpecCatalog   fetchAvailableModels: the filter and the ordering       *)
(*   SpecSettle    the mapping of settled batch promises to results, with  *)
(*                 task promises that may reject                           *)
(*   SpecDialogue  getModelConfiguration's gated questions                 *)
(*   SpecContextCommand  runContextualProcessor, the context command       *)
(*   SpecRun       runProcessor, the run command                           *)
(*                                                                         *)
(* Strings are sequences of tokens (<<"a", ".", "txt">> is "a.txt").       *)
(* An optional value is a sequence of length 0 (undefined / NaN) or 1.     *)
(***************************************************************************)
EXTENDS Integers, Sequences, FiniteSets, TLC

VARIABLES mode, concurrent, pricing, entries, rows, idColumn,
          promptFiles, pc, i, tasks, results, issued, disk

\* cfg: the request-shaping part of the ProcessConfig; request: the last
\* chat-completion request built; ctx: the locals of one contextual run, of
\* one combineFilesToCSV call or of one context command; cli: the state of
\* the command-line process (getConfiguration, modelCache, the dialogue,
\* the fetched catalog, the run command's position).
VARIABLES cfg, request, ctx, cli

batchVars == <<mode, concurrent, pricing, entries, rows, idColumn,
               promptFiles, pc, i, tasks, results, issued, disk>>
auxVars == <<cfg, request, ctx, cli>>

vars == <<mode, concurrent, pricing, entries, rows, idColumn,
          promptFiles, pc, i, tasks, results, issued, disk,
          cfg, request, ctx, cli>>

(* ---------------------------- bounds ----------------------------------- *)
MaxEntries == 3
MaxRows == 3
MaxSpin == 2

(* ------------------------ program constants ---------------------------- *)
DefaultConcurrency == 3
NoResponse == <<"No response generated">>
ResultSuffix == <<"_result", ".", "txt">>

(* ------------------------- generic helpers ----------------------------- *)
Max(a, b) == IF a > b THEN a ELSE b
Min(a, b) == IF a < b THEN a ELSE b

\* Array.prototype.slice(start, end): the 0-based positions it selects.
SliceFrom(len, start) == IF start < 0 THEN Max(len + start, 0) ELSE Min(start, len)
SliceIdx(len, start, end) ==
    LET from == SliceFrom(len, start)
        to   == SliceFrom(len, end)
    IN  [k \in 1..Max(to - from, 0) |-> from + k - 1]

\* node:path join(directory, file)
Join(dir, file) == dir \o <<"/">> \o file

LastDot(s) == LET D == {k \in 1..Len(s) : s[k] = "."}
              IN  IF D = {} THEN 0 ELSE CHOOSE k \in D : \A j \in D : j <= k

\* node:path extname: from the last dot on, empty when there is no dot or the
\* only dot leads the name.
ExtName(s) == LET d == LastDot(s)
              IN  IF d <= 1 THEN <<>> ELSE SubSeq(s, d, Len(s))

\* node:path basename(file, ext): the name without the suffix ext.
BaseName(s, ext) ==
    IF ext # <<>> /\ Len(s) > Len(ext)
       /\ SubSeq(s, Len(s) - Len(ext) + 1, Len(s)) = ext
    THEN SubSeq(s, 1, Len(s) - Len(ext))
    ELSE s

\* String.prototype.trim over tokens, " " being whitespace.
RECURSIVE TrimLeft(_)
TrimLeft(s) == IF s # <<>> /\ Head(s) = " " THEN TrimLeft(Tail(s)) ELSE s
RECURSIVE TrimRight(_)
TrimRight(s) == IF s # <<>> /\ s[Len(s)] = " "
                THEN TrimRight(SubSeq(s, 1, Len(s) - 1)) ELSE s
Trim(s) == TrimRight(TrimLeft(s))

\* Variant: files without an extension are not taken as prompts.
IsPromptExtNoBare(ext) == ext = <<".", "txt">> \/ ext = <<".", "md">>

IsPromptExt(ext) == ext = <<".", "txt">> \/ ext = <<".", "md">> \/ ext = <<>>

(* --------------------------- input pools ------------------------------- *)
Directory == <<"dir">>
OutputDirectory == <<"out">>

EntryPool == <<
    [name |-> <<"a", ".", "txt">>, isFile |-> TRUE,  statOk |-> TRUE,  readOk |-> TRUE,  content |-> <<" ", "p", " ">>],
    [name |-> <<"a", ".", "md">>,  isFile |-> TRUE,  statOk |-> TRUE,  readOk |-> TRUE,  content |-> <<"q">>],
    [name |-> <<"b">>,             isFile |-> TRUE,  statOk |-> TRUE,  readOk |-> TRUE,  content |-> <<"r", " ">>],
    [name |-> <<"a", "_result", ".", "txt">>, isFile |-> TRUE, statOk |-> TRUE, readOk |-> TRUE, content |-> <<"s">>],
    [name |-> <<"c", ".", "json">>, isFile |-> TRUE, statOk |-> TRUE,  readOk |-> TRUE,  content |-> <<"j">>],
    [name |-> <<"d">>,             isFile |-> FALSE, statOk |-> TRUE,  readOk |-> FALSE, content |-> <<>>],
    [name |-> <<"e", ".", "txt">>, isFile |-> TRUE,  statOk |-> TRUE,  readOk |-> FALSE, content |-> <<>>],
    [name |-> <<"f", ".", "md">>,  isFile |-> TRUE,  statOk |-> FALSE, readOk |-> FALSE, content |-> <<>>] >>

\* A directory listing: distinct entries, in the order of the pool.
RECURSIVE Pick(_, _)
Pick(S, k) == IF k > Len(EntryPool) THEN <<>>
              ELSE IF k \in S THEN <<EntryPool[k]>> \o Pick(S, k + 1)
              ELSE Pick(S, k + 1)
Listings == {Pick(S, 1) : S \in {T \in SUBSET (1..Len(EntryPool)) : Cardinality(T) <= MaxEntries}}

RowPool == {[id |-> <<"x">>], [id |-> <<>>]}
RowLists == UNION {[1..n -> RowPool] : n \in 0..MaxRows}
\* The --id-column option: absent, or a column of the CSV.
IdColumns == {<<>>, <<"id">>}

\* config.concurrent: parseInt of the option; <<>> is NaN / undefined.
Concurrents == {<<>>, <<0>>, <<-1>>, <<1>>, <<2>>}

Pricings == {[prompt |-> "1", completion |-> "2"], [prompt |-> "0", completion |-> "0"],
             [prompt |-> "-1", completion |-> "-1"], [prompt |-> "", completion |-> "1"]}

\* What the gateway may answer to one request.
Responses == {[content |-> <<>>, usage |-> <<>>],
              [content |-> <<"ok">>, usage |-> <<[prompt_tokens |-> 1, completion_tokens |-> 2]>>],
              [content |-> <<"ok">>, usage |-> <<[prompt_tokens |-> 0, completion_tokens |-> 0]>>]}
RequestErrors == {"network", "rejected"}
WriteError == "EACCES"

(* ------------------------------ discovery ------------------------------ *)
\* findPromptFiles: one PromptFile per entry that stats as a regular file,
\* has a prompt extension and can be read; everything else is skipped.
PromptFileOf(dir, e) ==
    [path       |-> Join(dir, e.name),
     name       |-> e.name,
     content    |-> Trim(e.content),
     outputPath |-> Join(dir, BaseName(e.name, ExtName(e.name)) \o ResultSuffix)]

\* Variant: the scan ends at the first entry that cannot be stat'ed or read.
RECURSIVE findPromptFilesStopAtFailure(_, _)
findPromptFilesStopAtFailure(dir, files) ==
    IF files = <<>> THEN <<>>
    ELSE LET e == Head(files)
             rest == findPromptFilesStopAtFailure(dir, Tail(files))
         IN  IF ~e.statOk THEN <<>>
             ELSE IF ~e.isFile THEN rest
             ELSE IF IsPromptExt(ExtName(e.name))
                  THEN IF e.readOk THEN <<PromptFileOf(dir, e)>> \o rest ELSE <<>>
                  ELSE rest

RECURSIVE findPromptFiles(_, _)
findPromptFiles(dir, files) ==
    IF files = <<>> THEN <<>>
    ELSE LET e == Head(files)
             rest == findPromptFiles(dir, Tail(files))
         IN  IF ~e.statOk \/ ~e.isFile THEN rest
             ELSE IF IsPromptExt(ExtName(e.name)) /\ e.readOk
                  THEN <<PromptFileOf(dir, e)>> \o rest
                  ELSE rest

(* -------------------------------- cost --------------------------------- *)
\* parseFloat of a price string; <<>> is NaN.
ParseFloat(s) == CASE s = "0"  -> <<0>>
                   [] s = "1"  -> <<1>>
                   [] s = "2"  -> <<2>>
                   [] s = "-1" -> <<-1>>
                   [] OTHER    -> <<>>
NumMul(a, b) == IF a = <<>> \/ b = <<>> THEN <<>> ELSE <<a[1] * b[1]>>
NumAdd(a, b) == IF a = <<>> \/ b = <<>> THEN <<>> ELSE <<a[1] + b[1]>>

\* let cost = 0; if (usage) cost = pt * promptPrice + ct * completionPrice
ComputeCost(usage, pr) ==
    IF usage = <<>> THEN <<0>>
    ELSE NumAdd(NumMul(<<usage[1].prompt_tokens>>, ParseFloat(pr.prompt)),
                NumMul(<<usage[1].completion_tokens>>, ParseFloat(pr.completion)))

\* x || undefined for a number x: 0 and NaN are falsy.
OrUndefined(x) == IF x = <<>> \/ x = <<0>> THEN <<>> ELSE x

\* completion.choices[0]?.message?.content || 'No response generated'
ResultText(resp) == IF resp.content = <<>> THEN NoResponse ELSE resp.content

(* ------------------------------ work items ----------------------------- *)
Concurrency == IF concurrent = <<>> \/ concurrent[1] = 0
               THEN DefaultConcurrency ELSE concurrent[1]

NumItems == IF mode = "files" THEN Len(promptFiles) ELSE Len(rows)

\* row[key]: <<>> stands for the empty string and for a missing column alike
\* (both are falsy).
Cell(row, key) == IF key \in DOMAIN row THEN row[key] ELSE <<>>

\* Variant: the identifier column is ignored.
IdentifierByIndexOnly(row, rowIndex) == <<"row_", ToString(rowIndex)>>

\* const identifier = idColumn && row[idColumn] ? String(row[idColumn]) : `row_${rowIndex}`
Identifier(row, rowIndex) ==
    IF idColumn # <<>> /\ Cell(row, idColumn[1]) # <<>> THEN Cell(row, idColumn[1])
    ELSE <<"row_", ToString(rowIndex)>>

\* item is the 0-based position of the work item, rowIndex the index handed
\* to processCSVRow (i + batchIndex).
ItemFile(item, rowIndex) ==
    IF mode = "files" THEN promptFiles[item + 1].name
    ELSE Identifier(rows[item + 1], rowIndex) \o ResultSuffix

ItemOutputPath(item, rowIndex) ==
    IF mode = "files" THEN promptFiles[item + 1].outputPath
    ELSE Join(OutputDirectory, Identifier(rows[item + 1], rowIndex) \o ResultSuffix)

NoResult == [none |-> TRUE]
\* The value of a variable the specification at hand does not use.
Unused == [unused |-> TRUE]

SuccessResult(t, resp) ==
    IF mode = "files"
    THEN [file |-> ItemFile(t.item, t.rowIndex), success |-> TRUE,
          result |-> <<ResultText(resp)>>, error |-> <<>>,
          usage |-> resp.usage,
          cost |-> OrUndefined(ComputeCost(resp.usage, pricing))]
    ELSE [file |-> ItemFile(t.item, t.rowIndex), success |-> TRUE,
          result |-> <<ResultText(resp)>>, error |-> <<>>,
          usage |-> resp.usage,
          cost |-> OrUndefined(ComputeCost(resp.usage, pricing)),
          rowIndex |-> t.rowIndex, rowData |-> rows[t.item + 1],
          outputFilePath |-> ItemOutputPath(t.item, t.rowIndex)]

FailedResult(t, msg) ==
    IF mode = "files"
    THEN [file |-> ItemFile(t.item, t.rowIndex), success |-> FALSE,
          result |-> <<>>, error |-> <<msg>>, usage |-> <<>>, cost |-> <<>>]
    ELSE [file |-> ItemFile(t.item, t.rowIndex), success |-> FALSE,
          result |-> <<>>, error |-> <<msg>>, usage |-> <<>>, cost |-> <<>>,
          rowIndex |-> t.rowIndex, rowData |-> rows[t.item + 1],
          outputFilePath |-> <<>>]

InFlight == {k \in 1..Len(tasks) : tasks[k].st = "request"}
AllSettled == \A k \in 1..Len(tasks) : tasks[k].st = "settled"
\* The position of a settlement among the settlements of its batch.
NextSeq == Cardinality({k \in 1..Len(tasks) : tasks[k].st = "settled"}) + 1

\* writeFile(path, text): the file then holds text, whoever wrote it before.
\* Variant: an existing file is left as it is.
WriteFileKeepFirst(d, path, text, item) ==
    IF \E w \in d : w.path = path THEN d
    ELSE d \cup {[path |-> path, text |-> text, by |-> item]}

WriteFile(d, path, text, item) ==
    {w \in d : w.path # path} \cup {[path |-> path, text |-> text, by |-> item]}

(* ------------------------------- actions ------------------------------- *)
Init ==
    /\ mode \in {"files", "csv"}
    /\ concurrent \in Concurrents
    /\ pricing \in Pricings
    /\ entries \in (IF mode = "files" THEN Listings ELSE {<<>>})
    /\ rows \in (IF mode = "csv" THEN RowLists ELSE {<<>>})
    /\ idColumn \in (IF mode = "csv" THEN IdColumns ELSE {<<>>})
    /\ promptFiles = <<>>
    /\ pc = "start"
    /\ i = 0
    /\ tasks = <<>>
    /\ results = <<>>
    /\ issued = <<>>
    /\ disk = {}
    /\ cfg = Unused /\ request = Unused /\ ctx = Unused /\ cli = Unused

\* Variant: the empty discovery is not checked and the loop is entered.
StartProcessAllNoCheck ==
    /\ pc = "start" /\ mode = "files"
    /\ promptFiles' = findPromptFiles(Directory, entries)
    /\ pc' = "loop"
    /\ issued' = [k \in 1..Len(promptFiles') |-> 0]
    /\ UNCHANGED <<mode, concurrent, pricing, entries, rows, idColumn, i, tasks, results, disk>>

\* processAll up to the loop: discovery, then the no-files error.
StartProcessAll ==
    /\ pc = "start" /\ mode = "files"
    /\ promptFiles' = findPromptFiles(Directory, entries)
    /\ pc' = IF Len(promptFiles') = 0 THEN "threw" ELSE "loop"
    /\ issued' = [k \in 1..Len(promptFiles') |-> 0]
    /\ UNCHANGED <<mode, concurrent, pricing, entries, rows, idColumn, i, tasks, results, disk>>

\* readdir rejects: findPromptFiles, and with it processAll, throws the
\* directory-read error.
ReaddirFails ==
    /\ pc = "start" /\ mode = "files"
    /\ pc' = "readdirFailed"
    /\ UNCHANGED <<mode, concurrent, pricing, entries, rows, idColumn, promptFiles, i, tasks, results, issued, disk>>

\* processCSVRows up to the loop.
StartProcessCSVRows ==
    /\ pc = "start" /\ mode = "csv"
    /\ pc' = "loop"
    /\ issued' = [k \in 1..Len(rows) |-> 0]
    /\ UNCHANGED <<mode, concurrent, pricing, entries, rows, idColumn, promptFiles, i, tasks, results, disk>>

\* One loop iteration up to the await: slice the batch and start every task;
\* each task runs synchronously up to its chat-completion request.
DispatchBatch ==
    /\ pc = "loop" /\ i < NumItems
    /\ i > -MaxSpin
    /\ LET batch == SliceIdx(NumItems, i, i + Concurrency)
       IN  /\ tasks' = [k \in 1..Len(batch) |->
                          [item |-> batch[k], rowIndex |-> i + k - 1,
                           st |-> "request", seq |-> 0,
                           resp |-> NoResult, res |-> NoResult]]
           /\ issued' = [x \in 1..Len(issued) |->
                          issued[x] + Cardinality({k \in 1..Len(batch) : batch[k] + 1 = x})]
    /\ pc' = "await"
    /\ UNCHANGED <<mode, concurrent, pricing, entries, rows, idColumn, promptFiles, i, results, disk>>

\* Variant: a failed request is issued again instead of being reported.
RequestFailsRetry(k) ==
    /\ pc = "await" /\ k \in InFlight
    /\ issued[tasks[k].item + 1] < 3
    /\ issued' = [issued EXCEPT ![tasks[k].item + 1] = @ + 1]
    /\ UNCHANGED <<mode, concurrent, pricing, entries, rows, idColumn, promptFiles, pc, i, tasks, results, disk>>

\* client.chat.completions.create rejects: the catch block builds the result.
RequestFails(k) ==
    /\ pc = "await" /\ k \in InFlight
    /\ \E err \in RequestErrors :
         tasks' = [tasks EXCEPT ![k].st = "settled", ![k].seq = NextSeq, ![k].res = FailedResult(tasks[k], err)]
    /\ UNCHANGED <<mode, concurrent, pricing, entries, rows, idColumn, promptFiles, pc, i, results, issued, disk>>

\* The request resolves: the task goes on to writeFile.
RequestCompletes(k) ==
    /\ pc = "await" /\ k \in InFlight
    /\ \E resp \in Responses :
         tasks' = [tasks EXCEPT ![k].st = "write", ![k].resp = resp]
    /\ UNCHANGED <<mode, concurrent, pricing, entries, rows, idColumn, promptFiles, pc, i, results, issued, disk>>

\* writeFile resolves: the result is built with its cost.
WriteSucceeds(k) ==
    /\ pc = "await" /\ k \in 1..Len(tasks) /\ tasks[k].st = "write"
    /\ disk' = WriteFile(disk, ItemOutputPath(tasks[k].item, tasks[k].rowIndex),
                         ResultText(tasks[k].resp), tasks[k].item)
    /\ tasks' = [tasks EXCEPT ![k].st = "settled", ![k].seq = NextSeq, ![k].res = SuccessResult(tasks[k], tasks[k].resp)]
    /\ UNCHANGED <<mode, concurrent, pricing, entries, rows, idColumn, promptFiles, pc, i, results, issued>>

\* Variant: the write happens outside the try block, so its failure rejects
\* the task.
WriteFailsEscapes(k) ==
    /\ pc = "await" /\ k \in 1..Len(tasks) /\ tasks[k].st = "write"
    /\ tasks' = [tasks EXCEPT ![k].st = "rejected"]
    /\ UNCHANGED <<mode, concurrent, pricing, entries, rows, idColumn, promptFiles, pc, i, results, issued, disk>>

\* writeFile rejects: the catch block builds the result.
WriteFails(k) ==
    /\ pc = "await" /\ k \in 1..Len(tasks) /\ tasks[k].st = "write"
    /\ tasks' = [tasks EXCEPT ![k].st = "settled", ![k].seq = NextSeq, ![k].res = FailedResult(tasks[k], WriteError)]
    /\ UNCHANGED <<mode, concurrent, pricing, entries, rows, idColumn, promptFiles, pc, i, results, issued, disk>>

\* Variant: the outcomes are collected in the order the tasks settled.
BatchResultsInSettleOrder(ts) ==
    [k \in 1..Len(ts) |-> ts[CHOOSE j \in 1..Len(ts) : ts[j].seq = k].res]

\* Promise.allSettled resolves once every task of the batch has settled,
\* with the outcomes in the order of the promises.
BatchSettled == AllSettled
BatchResults(ts) == [k \in 1..Len(ts) |-> ts[k].res]

\* Variant: the loop index advances by one instead of by the batch size.
CollectBatchStepOne ==
    /\ pc = "await" /\ BatchSettled
    /\ results' = results \o BatchResults(tasks)
    /\ i' = i + 1
    /\ pc' = "loop"
    /\ UNCHANGED <<mode, concurrent, pricing, entries, rows, idColumn, promptFiles, tasks, issued, disk>>

\* Variant: the loop is left as soon as a batch holds a failed result.
CollectBatchFailFast ==
    /\ pc = "await" /\ BatchSettled
    /\ results' = results \o BatchResults(tasks)
    /\ i' = i + Concurrency
    /\ pc' = IF \E k \in 1..Len(tasks) : ~tasks[k].res.success THEN "done" ELSE "loop"
    /\ UNCHANGED <<mode, concurrent, pricing, entries, rows, idColumn, promptFiles, tasks, issued, disk>>

\* results.push(...batchResults.map(...)); i += concurrency
CollectBatch ==
    /\ pc = "await" /\ BatchSettled
    /\ results' = results \o BatchResults(tasks)
    /\ i' = i + Concurrency
    /\ pc' = "loop"
    /\ UNCHANGED <<mode, concurrent, pricing, entries, rows, idColumn, promptFiles, tasks, issued, disk>>

\* The loop condition fails: return results.
Return ==
    /\ pc = "loop" /\ ~(i < NumItems)
    /\ pc' = "done"
    /\ UNCHANGED <<mode, concurrent, pricing, entries, rows, idColumn, promptFiles, i, tasks, results, issued, disk>>

Next ==
    \/ StartProcessAll /\ UNCHANGED auxVars
    \/ ReaddirFails /\ UNCHANGED auxVars
    \/ StartProcessCSVRows /\ UNCHANGED auxVars
    \/ DispatchBatch /\ UNCHANGED auxVars
    \/ \E k \in 1..Len(tasks) : RequestFails(k) /\ UNCHANGED auxVars
    \/ \E k \in 1..Len(tasks) : RequestCompletes(k) /\ UNCHANGED auxVars
    \/ \E k \in 1..Len(tasks) : WriteSucceeds(k) /\ UNCHANGED auxVars
    \/ \E k \in 1..Len(tasks) : WriteFails(k) /\ UNCHANGED auxVars
    \/ CollectBatch /\ UNCHANGED auxVars
    \/ Return /\ UNCHANGED auxVars

Spec == Init /\ [][Next]_vars

\* The event loop runs every task that can take a step, and the loop goes
\* on whenever its await has resolved.
SpecFair == Spec /\ WF_vars(Next)

(* ------------------- SpecDiscovery: findPromptFiles -------------------- *)
\* Directory entries: a name with what stat and readFile do on it.
DiscNames == << <<"a", ".", "txt">>, <<"a", ".", "md">>, <<"b">>, <<"c", ".", "json">>,
                <<".", "env">>, <<"g", ".">>, <<"a", "_result", ".", "txt">> >>
DiscContents == << <<" ", "p", " ">>, <<"q">>, <<"r", " ">>, <<"j">>, <<" ">>, <<>>, <<" ", "s">> >>
EntryKinds == {"file", "dir", "statFails", "readFails"}

DiscEntry(n, kind) ==
    [name |-> DiscNames[n], isFile |-> kind # "dir", statOk |-> kind # "statFails",
     readOk |-> kind = "file", content |-> IF kind = "file" THEN DiscContents[n] ELSE <<>>]

RECURSIVE DiscListing(_, _, _)
DiscListing(S, kinds, n) ==
    IF n > Len(DiscNames) THEN <<>>
    ELSE IF n \in S THEN <<DiscEntry(n, kinds[n])>> \o DiscListing(S, kinds, n + 1)
    ELSE DiscListing(S, kinds, n + 1)

DiscListings ==
    UNION {{DiscListing(S, kinds, 1) : kinds \in [S -> EntryKinds]} :
             S \in {T \in SUBSET (1..Len(DiscNames)) : Cardinality(T) <= MaxEntries}}

InitDiscovery ==
    /\ mode = "files"
    /\ concurrent = <<>>
    /\ pricing \in {[prompt |-> "1", completion |-> "2"]}
    /\ entries \in DiscListings
    /\ rows = <<>> /\ idColumn = <<>>
    /\ promptFiles = <<>>
    /\ pc = "start"
    /\ i = 0 /\ tasks = <<>> /\ results = <<>> /\ issued = <<>> /\ disk = {}
    /\ cfg = Unused /\ request = Unused /\ ctx = Unused /\ cli = Unused

\* findPromptFiles returns the list it built.
Discover ==
    /\ pc = "start" /\ mode = "files"
    /\ promptFiles' = findPromptFiles(Directory, entries)
    /\ pc' = "discovered"
    /\ UNCHANGED <<mode, concurrent, pricing, entries, rows, idColumn, i, tasks, results, issued, disk>>

NextDiscovery ==
    \/ Discover /\ UNCHANGED auxVars
    \/ ReaddirFails /\ UNCHANGED auxVars

SpecDiscovery == InitDiscovery /\ [][NextDiscovery]_vars

(* ---------------- SpecRequest: the chat-completion request -------------- *)
\* An optional field is a sequence of length 0 (undefined) or 1.
Optional(S) == {<<>>} \cup {<<v>> : v \in S}

ModelIds == {<<"m">>, <<"n", ":free">>}
ReasoningLevels == {"low", "medium", "high"}

Configs ==
    [model : ModelIds,
     temperature : Optional({1}), maxTokens : Optional({100}), topP : Optional({1}),
     frequencyPenalty : Optional({1}), presencePenalty : Optional({1}),
     reasoning : Optional({TRUE}),
     webSearch : Optional(BOOLEAN), reasoningLevel : Optional(ReasoningLevels)]

WebSearchOn(c) == c.webSearch = <<TRUE>>

\* Variant: the plugin suffix is added whenever web search is on.
ModelNameAlwaysOnline(c) ==
    IF WebSearchOn(c) THEN c.model \o <<":online">> ELSE c.model

ModelName(c) ==
    IF WebSearchOn(c) /\ c.reasoningLevel = <<>> THEN c.model \o <<":online">> ELSE c.model

WebSearchOptions(c) ==
    IF WebSearchOn(c) /\ c.reasoningLevel # <<>>
    THEN <<[search_context_size |-> c.reasoningLevel[1]]>>
    ELSE <<>>

Reasoning(c) == IF c.reasoning = <<TRUE>> THEN <<"{}">> ELSE <<>>

PromptMessages == << [role |-> "user", content |-> "prompt"] >>
ContextualMessages == << [role |-> "system", content |-> "context"],
                         [role |-> "user", content |-> "main"] >>
CSVRowMessages == << [role |-> "user", content |-> "processedPrompt"] >>

\* processPrompt, l.70-104
PromptRequest(c) ==
    [model |-> ModelName(c), messages |-> PromptMessages,
     temperature |-> c.temperature, max_tokens |-> c.maxTokens, top_p |-> c.topP,
     frequency_penalty |-> c.frequencyPenalty, presence_penalty |-> c.presencePenalty,
     web_search_options |-> WebSearchOptions(c), reasoning |-> Reasoning(c)]

\* processContextualPrompt, l.237-258: the two penalties are not passed on
ContextualRequest(c) ==
    [model |-> ModelName(c), messages |-> ContextualMessages,
     temperature |-> c.temperature, max_tokens |-> c.maxTokens, top_p |-> c.topP,
     frequency_penalty |-> <<>>, presence_penalty |-> <<>>,
     web_search_options |-> WebSearchOptions(c), reasoning |-> Reasoning(c)]

\* processCSVRow, l.372-402
CSVRowRequest(c) ==
    [model |-> ModelName(c), messages |-> CSVRowMessages,
     temperature |-> c.temperature, max_tokens |-> c.maxTokens, top_p |-> c.topP,
     frequency_penalty |-> c.frequencyPenalty, presence_penalty |-> c.presencePenalty,
     web_search_options |-> WebSearchOptions(c), reasoning |-> Reasoning(c)]

InitRequest ==
    /\ mode = "request"
    /\ concurrent = <<>>
    /\ pricing \in {[prompt |-> "1", completion |-> "2"]}
    /\ entries = <<>> /\ rows = <<>> /\ idColumn = <<>>
    /\ promptFiles = <<>>
    /\ pc = "start"
    /\ i = 0 /\ tasks = <<>> /\ results = <<>> /\ issued = <<>> /\ disk = {}
    /\ cfg \in Configs
    /\ request = Unused /\ ctx = Unused /\ cli = Unused

BuildPromptRequest ==
    /\ mode = "request" /\ pc = "start"
    /\ request' = PromptRequest(cfg)
    /\ pc' = "prompt"
    /\ UNCHANGED <<cfg, ctx, cli>>

BuildContextualRequest ==
    /\ mode = "request" /\ pc = "start"
    /\ request' = ContextualRequest(cfg)
    /\ pc' = "contextual"
    /\ UNCHANGED <<cfg, ctx, cli>>

BuildCSVRowRequest ==
    /\ mode = "request" /\ pc = "start"
    /\ request' = CSVRowRequest(cfg)
    /\ pc' = "csvRow"
    /\ UNCHANGED <<cfg, ctx, cli>>

reqFixed == <<mode, concurrent, pricing, entries, rows, idColumn, promptFiles,
              i, tasks, results, issued, disk>>

NextRequest ==
    \/ BuildPromptRequest /\ UNCHANGED reqFixed
    \/ BuildContextualRequest /\ UNCHANGED reqFixed
    \/ BuildCSVRowRequest /\ UNCHANGED reqFixed

SpecRequest == InitRequest /\ [][NextRequest]_vars

(* ------------- SpecConfig: getConfiguration and modelCache -------------- *)
\* Number of commands run in one process.
MaxRuns == 3

\* Lists fetchAvailableModels can return.
Catalogs == {<<>>, << <<"m">> >>, << <<"m">>, <<"n", ":free">> >>}
\* options.model, or the value picked in selectModel.
RequestedModels == ModelIds \cup {<<"zz">>}
\* Outcomes of the credential test that make testApiKey return false.
KeyRejections == {"401", "500", "network"}
InvalidKeyError == "Invalid OpenRouter API key. Please check your key and try again."

InitConfig ==
    /\ mode = "cli"
    /\ concurrent = <<>>
    /\ pricing \in {[prompt |-> "1", completion |-> "2"]}
    /\ entries = <<>> /\ rows = <<>> /\ idColumn = <<>>
    /\ promptFiles = <<>>
    /\ pc = "idle"
    /\ i = 0 /\ tasks = <<>> /\ results = <<>> /\ issued = <<>> /\ disk = {}
    /\ cfg = Unused /\ request = Unused /\ ctx = Unused
    /\ cli = [modelCache |-> <<>>, runs |-> 0,
              fetches |-> 0, fetchedOk |-> FALSE, firstList |-> <<>>, refetches |-> 0,
              keyTest |-> "none", selectionAttempted |-> FALSE, questionsAsked |-> FALSE,
              chatRequests |-> 0, error |-> "none"]

\* A command handler calls getConfiguration, which runs up to the await of
\* testApiKey.
StartGetConfiguration ==
    /\ mode = "cli" /\ pc \in {"idle", "processed"}
    /\ cli.runs < MaxRuns
    /\ cli' = [cli EXCEPT !.runs = @ + 1, !.keyTest = "pending",
                          !.selectionAttempted = FALSE, !.questionsAsked = FALSE,
                          !.chatRequests = 0]
    /\ pc' = "testApiKey"
    /\ UNCHANGED <<cfg, request, ctx>>

\* Variant: the cache is not consulted and the catalog is always fetched.
TestApiKeyOkNoCache ==
    /\ mode = "cli" /\ pc = "testApiKey"
    /\ cli' = [cli EXCEPT !.keyTest = "ok"]
    /\ pc' = "fetchAvailableModels"
    /\ UNCHANGED <<cfg, request, ctx>>

\* testApiKey returned true; l.125-131 picks the fetch or the cache.
TestApiKeyOk ==
    /\ mode = "cli" /\ pc = "testApiKey"
    /\ cli' = [cli EXCEPT !.keyTest = "ok"]
    /\ pc' = IF Len(cli.modelCache) = 0 THEN "fetchAvailableModels" ELSE "selectModel"
    /\ UNCHANGED <<cfg, request, ctx>>

\* Variant: the result of testApiKey is not looked at.
TestApiKeyRejectedIgnored ==
    /\ mode = "cli" /\ pc = "testApiKey"
    /\ \E o \in KeyRejections : cli' = [cli EXCEPT !.keyTest = o]
    /\ pc' = IF Len(cli.modelCache) = 0 THEN "fetchAvailableModels" ELSE "selectModel"
    /\ UNCHANGED <<cfg, request, ctx>>

\* testApiKey returned false: the thrown error passes the catch of l.165 and
\* the handler's catch, which ends the process.
TestApiKeyRejected ==
    /\ mode = "cli" /\ pc = "testApiKey"
    /\ \E o \in KeyRejections :
         cli' = [cli EXCEPT !.keyTest = o, !.error = InvalidKeyError]
    /\ pc' = "exited"
    /\ UNCHANGED <<cfg, request, ctx>>

FetchSucceeds ==
    /\ mode = "cli" /\ pc = "fetchAvailableModels"
    /\ \E list \in Catalogs :
         cli' = [cli EXCEPT !.modelCache = list,
                            !.fetches = @ + 1,
                            !.refetches = IF cli.fetchedOk THEN @ + 1 ELSE @,
                            !.fetchedOk = TRUE,
                            !.firstList = IF cli.fetchedOk THEN @ ELSE list]
    /\ pc' = "selectModel"
    /\ UNCHANGED <<cfg, request, ctx>>

FetchFails ==
    /\ mode = "cli" /\ pc = "fetchAvailableModels"
    /\ cli' = [cli EXCEPT !.fetches = @ + 1,
                          !.refetches = IF cli.fetchedOk THEN @ + 1 ELSE @,
                          !.error = "Error fetching models from OpenRouter"]
    /\ pc' = "exited"
    /\ UNCHANGED <<cfg, request, ctx>>

\* l.135-148: the identifier comes from the option or from selectModel and is
\* looked up in the list; process.exit(1) when it is not there.
SelectModel ==
    /\ mode = "cli" /\ pc = "selectModel"
    /\ \E id \in RequestedModels :
         IF \E k \in 1..Len(cli.modelCache) : cli.modelCache[k] = id
         THEN /\ pc' = "getModelConfiguration"
              /\ cli' = [cli EXCEPT !.selectionAttempted = TRUE]
              /\ cfg' = [model |-> id]
         ELSE /\ pc' = "exited"
              /\ cli' = [cli EXCEPT !.selectionAttempted = TRUE, !.error = "Model not found"]
              /\ cfg' = cfg
    /\ UNCHANGED <<request, ctx>>

\* getModelConfiguration with the advanced settings left alone, and the
\* return of getConfiguration.
GetModelConfiguration ==
    /\ mode = "cli" /\ pc = "getModelConfiguration"
    /\ \E webSearch \in BOOLEAN, reasoning \in BOOLEAN,
          level \in {"off"} \cup ReasoningLevels :
         cfg' = [model |-> cfg.model,
                 temperature |-> <<>>, maxTokens |-> <<>>, topP |-> <<>>,
                 frequencyPenalty |-> <<>>, presencePenalty |-> <<>>,
                 reasoning |-> IF reasoning THEN <<TRUE>> ELSE <<>>,
                 webSearch |-> <<webSearch>>,
                 reasoningLevel |-> IF webSearch /\ level # "off" THEN <<level>> ELSE <<>>]
    /\ cli' = [cli EXCEPT !.questionsAsked = TRUE]
    /\ pc' = "configured"
    /\ UNCHANGED <<request, ctx>>

\* The command's processing with the resolved configuration: one
\* chat-completion request stands for the run.
RunCommand ==
    /\ mode = "cli" /\ pc = "configured"
    /\ request' = PromptRequest(cfg)
    /\ cli' = [cli EXCEPT !.chatRequests = @ + 1]
    /\ pc' = "processed"
    /\ UNCHANGED <<cfg, ctx>>

NextConfig ==
    \/ StartGetConfiguration /\ UNCHANGED reqFixed
    \/ TestApiKeyOk /\ UNCHANGED reqFixed
    \/ TestApiKeyRejected /\ UNCHANGED reqFixed
    \/ FetchSucceeds /\ UNCHANGED reqFixed
    \/ FetchFails /\ UNCHANGED reqFixed
    \/ SelectModel /\ UNCHANGED reqFixed
    \/ GetModelConfiguration /\ UNCHANGED reqFixed
    \/ RunCommand /\ UNCHANGED reqFixed

SpecConfig == InitConfig /\ [][NextConfig]_vars

(* ------------- SpecContext: processContextualPrompt --------------------- *)
\* Longest main prompt, in tokens.
MaxPrompt == 5

PromptTokens == {"{{", "}}", " ", "a", "b", "zz"}
MainPrompts == UNION {[1..n -> PromptTokens] : n \in 0..MaxPrompt}

MainPromptFile ==
    [name |-> <<"main", ".", "txt">>, path |-> Directory \o <<"/", "main", ".", "txt">>,
     outputPath |-> Directory \o <<"/", "main", "_result", ".", "txt">>]

ContextFileA == [name |-> <<"a">>, path |-> Directory \o <<"/", "a">>, content |-> <<"A1", "A2">>]
ContextFileB == [name |-> <<"b">>, path |-> Directory \o <<"/", "b">>, content |-> <<"B1">>]
ContextFileLists == {<<>>, <<ContextFileA>>, <<ContextFileB>>, <<ContextFileA, ContextFileB>>}

ContextConfig ==
    [model |-> <<"m">>, temperature |-> <<>>, maxTokens |-> <<>>, topP |-> <<>>,
     frequencyPenalty |-> <<>>, presencePenalty |-> <<>>, reasoning |-> <<>>,
     webSearch |-> <<>>, reasoningLevel |-> <<>>]

\* /{{\s*([^}]+)\s*}}/ tried at position p: the position of the closing
\* braces, or 0 when there is no match there.  [^}]+ runs up to the first
\* "}}" and needs one token at least.
CloseOf(text, p) ==
    IF p > Len(text) \/ text[p] # "{{" THEN 0
    ELSE LET closes == {q \in (p + 1)..Len(text) : text[q] = "}}"}
         IN  IF closes = {} THEN 0
             ELSE LET q == CHOOSE c \in closes : \A d \in closes : c <= d
                  IN  IF q = p + 1 THEN 0 ELSE q

\* The capture group: the leading \s* is greedy and takes the whitespace in
\* front, giving one token back when nothing else is left; whitespace at the
\* end stays in the group.
Capture(text, p, q) ==
    LET inner == SubSeq(text, p + 1, q - 1)
    IN  IF TrimLeft(inner) # <<>> THEN TrimLeft(inner) ELSE <<inner[Len(inner)]>>

\* contextFiles.find((file) => file.name === fileName.trim())
FindContextFile(files, fileName) ==
    LET hits == {k \in 1..Len(files) : files[k].name = Trim(fileName)}
    IN  IF hits = {} THEN 0 ELSE CHOOSE k \in hits : \A h \in hits : k <= h

MarkerOpen == "[Warning: Context file \""
MarkerClose == "\" not found]"

\* The marker carries the capture group as it is, not trimmed (l.207).
MissingMarker(fileName) == <<MarkerOpen>> \o fileName \o <<MarkerClose>>

\* mainPromptContent.replace(injectionRegex, ...) from position p on: the new
\* content and the paths added to explicitlyReferencedFiles.
RECURSIVE Inject(_, _, _)
Inject(text, p, files) ==
    IF p > Len(text) THEN [content |-> <<>>, referenced |-> {}]
    ELSE LET q == CloseOf(text, p)
         IN  IF q = 0
             THEN LET rest == Inject(text, p + 1, files)
                  IN  [content |-> <<text[p]>> \o rest.content, referenced |-> rest.referenced]
             ELSE LET fileName == Capture(text, p, q)
                      k == FindContextFile(files, fileName)
                      rest == Inject(text, q + 1, files)
                  IN  IF k # 0
                      THEN [content |-> files[k].content \o rest.content,
                            referenced |-> {files[k].path} \cup rest.referenced]
                      ELSE [content |-> MissingMarker(fileName) \o rest.content,
                            referenced |-> rest.referenced]

\* Variant: every context file goes into the context block.
ImplicitContextFilesAll(files, referenced) == files

ImplicitContextFiles(files, referenced) ==
    SelectSeq(files, LAMBDA f : f.path \notin referenced)

\* The message list: the system context block when there is an implicit
\* file, then the user message.
ContextMessages(text, files) ==
    LET inj == Inject(text, 1, files)
        implicit == ImplicitContextFiles(files, inj.referenced)
        block == [k \in 1..Len(implicit) |->
                    [name |-> implicit[k].name, content |-> implicit[k].content]]
    IN  (IF Len(implicit) > 0 THEN << [role |-> "system", block |-> block] >> ELSE <<>>)
        \o << [role |-> "user", content |-> inj.content] >>

ContextSuccess(resp) ==
    [file |-> MainPromptFile.name, success |-> TRUE,
     result |-> <<ResultText(resp)>>, error |-> <<>>, usage |-> resp.usage,
     cost |-> OrUndefined(ComputeCost(resp.usage, pricing))]

ContextFailure(msg) ==
    [file |-> MainPromptFile.name, success |-> FALSE,
     result |-> <<>>, error |-> <<msg>>, usage |-> <<>>, cost |-> <<>>]

InitContext ==
    /\ mode = "contextual"
    /\ concurrent = <<>>
    /\ pricing \in {[prompt |-> "1", completion |-> "2"]}
    /\ entries = <<>> /\ rows = <<>> /\ idColumn = <<>>
    /\ promptFiles = <<>>
    /\ pc = "start"
    /\ i = 0 /\ tasks = <<>> /\ results = <<>> /\ issued = <<>> /\ disk = {}
    /\ cfg = ContextConfig
    /\ request = Unused /\ cli = Unused
    /\ \E text \in MainPrompts, files \in ContextFileLists :
         ctx = [main |-> text, files |-> files, resp |-> Unused]

ctxFixed == <<mode, concurrent, pricing, entries, rows, idColumn, promptFiles,
              i, tasks, issued, cfg, cli>>

\* l.188-260: injection, context block, request sent.
SendContextualRequest ==
    /\ mode = "contextual" /\ pc = "start"
    /\ request' = [ContextualRequest(cfg) EXCEPT !.messages = ContextMessages(ctx.main, ctx.files)]
    /\ pc' = "request"
    /\ UNCHANGED <<ctx, results, disk>>

ContextualRequestFails ==
    /\ mode = "contextual" /\ pc = "request"
    /\ \E e \in RequestErrors : results' = <<ContextFailure(e)>>
    /\ pc' = "done"
    /\ UNCHANGED <<ctx, request, disk>>

ContextualRequestCompletes ==
    /\ mode = "contextual" /\ pc = "request"
    /\ \E resp \in Responses : ctx' = [ctx EXCEPT !.resp = resp]
    /\ pc' = "write"
    /\ UNCHANGED <<request, results, disk>>

ContextualWriteSucceeds ==
    /\ mode = "contextual" /\ pc = "write"
    /\ disk' = WriteFile(disk, MainPromptFile.outputPath, ResultText(ctx.resp), 0)
    /\ results' = <<ContextSuccess(ctx.resp)>>
    /\ pc' = "done"
    /\ UNCHANGED <<ctx, request>>

ContextualWriteFails ==
    /\ mode = "contextual" /\ pc = "write"
    /\ results' = <<ContextFailure(WriteError)>>
    /\ pc' = "done"
    /\ UNCHANGED <<ctx, request, disk>>

NextContext ==
    \/ SendContextualRequest /\ UNCHANGED ctxFixed
    \/ ContextualRequestFails /\ UNCHANGED ctxFixed
    \/ ContextualRequestCompletes /\ UNCHANGED ctxFixed
    \/ ContextualWriteSucceeds /\ UNCHANGED ctxFixed
    \/ ContextualWriteFails /\ UNCHANGED ctxFixed

SpecContext == InitContext /\ [][NextContext]_vars

(* ---------------- SpecCombine: combineFilesToCSV ------------------------ *)
\* Longest source directory listing.
MaxCombine == 3

SourceDirectory == <<"src">>

\* JSON.parse on the file contents of the pool.  A parsed value is an object
\* or array with its top-level keys in order, a scalar, or null; every
\* member value carries the text that reaches its cell (JSON.stringify for
\* objects and null, the value itself otherwise).
JSONParse(content) ==
    CASE content = "{\"a\":1}" ->
           [ok |-> TRUE, value |-> [type |-> "object", fields |-> << <<"a", "1">> >>]]
      [] content = "{\"b\":{},\"c\":null}" ->
           [ok |-> TRUE, value |-> [type |-> "object", fields |-> << <<"b", "{}">>, <<"c", "null">> >>]]
      [] content = "{\"a\":\"\",\"b\":2}" ->
           [ok |-> TRUE, value |-> [type |-> "object", fields |-> << <<"a", "">>, <<"b", "2">> >>]]
      [] content = "[7]" ->
           [ok |-> TRUE, value |-> [type |-> "array", fields |-> << <<"0", "7">> >>]]
      [] content = "5" ->
           [ok |-> TRUE, value |-> [type |-> "scalar", fields |-> <<>>]]
      [] content = "null" ->
           [ok |-> TRUE, value |-> [type |-> "null", fields |-> <<>>]]
      [] OTHER ->
           [ok |-> FALSE, message |-> "Unexpected token in JSON"]

\* typeof content === 'object' && content !== null
IsObject(v) == v.type \in {"object", "array"}

ToLowerCase(ext) ==
    [k \in 1..Len(ext) |-> IF ext[k] = "JSON" THEN "json" ELSE ext[k]]

CombineNames == << <<"x", ".", "json">>, <<"y", ".", "JSON">>, <<"w", ".", "json">>,
                   <<"z", ".", "json">>, <<"s", ".", "json">>, <<"n", ".", "json">>,
                   <<"r", ".", "json">>, <<"t", ".", "txt">>, <<"e">> >>
CombineContents == << "{\"a\":1}", "{\"b\":{},\"c\":null}", "{\"a\":\"\",\"b\":2}",
                      "{bad", "5", "null",
                      "[7]", "{\"a\":1}", "" >>

CombineEntry(n, kind) ==
    [name |-> CombineNames[n], isFile |-> kind # "dir", statOk |-> kind # "statFails",
     readOk |-> kind = "file", content |-> CombineContents[n], size |-> ToString(n)]

RECURSIVE CombineListing(_, _, _)
CombineListing(S, kinds, n) ==
    IF n > Len(CombineNames) THEN <<>>
    ELSE IF n \in S THEN <<CombineEntry(n, kinds[n])>> \o CombineListing(S, kinds, n + 1)
    ELSE CombineListing(S, kinds, n + 1)

CombineListings ==
    UNION {{CombineListing(S, kinds, 1) : kinds \in [S -> EntryKinds]} :
             S \in {T \in SUBSET (1..Len(CombineNames)) : Cardinality(T) <= MaxCombine}}

\* l.461-492: the entry built for a file that was read.
FileData(e, includeMetadata) ==
    LET isJson == ToLowerCase(ExtName(e.name)) = <<".", "json">>
        parsed == JSONParse(e.content)
    IN  [filename |-> e.name,
         filepath |-> Join(SourceDirectory, e.name),
         content |-> IF isJson /\ parsed.ok THEN parsed.value
                     ELSE [type |-> "string", text |-> e.content],
         fileType |-> IF ~isJson THEN "text" ELSE IF parsed.ok THEN "json" ELSE "other",
         parseError |-> IF isJson /\ ~parsed.ok THEN <<parsed.message>> ELSE <<>>,
         metadata |-> IF includeMetadata
                      THEN <<[size |-> e.size, created |-> "created", modified |-> "modified"]>>
                      ELSE <<>>]

\* headers.add(h) on a Set kept in insertion order.
AddHeader(hs, h) == IF \E k \in 1..Len(hs) : hs[k] = h THEN hs ELSE Append(hs, h)

RECURSIVE AddJsonKeys(_, _)
AddJsonKeys(hs, fields) ==
    IF fields = <<>> THEN hs
    ELSE AddJsonKeys(AddHeader(hs, "json_" \o Head(fields)[1]), Tail(fields))

\* The forEach body of generateCSVHeaders for one item.
ItemHeaders(hs, item) ==
    LET h1 == IF item.fileType = "json" /\ IsObject(item.content)
              THEN AddJsonKeys(hs, item.content.fields)
              ELSE IF item.fileType = "text" THEN AddHeader(hs, "text_content")
              ELSE hs
    IN  IF item.parseError # <<>> /\ item.parseError[1] # ""
        THEN AddHeader(h1, "parseError") ELSE h1

RECURSIVE AllItemHeaders(_, _)
AllItemHeaders(hs, data) ==
    IF data = <<>> THEN hs ELSE AllItemHeaders(ItemHeaders(hs, Head(data)), Tail(data))

generateCSVHeaders(data, includeMetadata) ==
    AllItemHeaders(<<"filename", "filepath", "fileType">>
                     \o (IF includeMetadata THEN <<"size", "created", "modified">> ELSE <<>>),
                   data)

\* The cells a row gets before the missing headers are filled in.
OwnCells(item) ==
    LET base == {<<"filename", item.filename>>, <<"filepath", item.filepath>>,
                 <<"fileType", <<item.fileType>> >>}
        meta == IF item.metadata # <<>>
                THEN {<<"size", <<item.metadata[1].size>> >>,
                      <<"created", <<item.metadata[1].created>> >>,
                      <<"modified", <<item.metadata[1].modified>> >>}
                ELSE {}
        perr == IF item.parseError # <<>> /\ item.parseError[1] # ""
                THEN {<<"parseError", item.parseError>>} ELSE {}
        body == IF item.fileType = "json" /\ IsObject(item.content)
                THEN {<<"json_" \o item.content.fields[k][1],
                        IF item.content.fields[k][2] = "" THEN <<>>
                        ELSE <<item.content.fields[k][2]>> >> :
                      k \in 1..Len(item.content.fields)}
                ELSE IF item.fileType = "text"
                THEN {<<"text_content",
                        IF item.content.text = "" THEN <<>> ELSE <<item.content.text>> >>}
                ELSE {}
    IN  base \cup meta \cup perr \cup body

Keys(cells) == {c[1] : c \in cells}
CellOf(cells, h) == (CHOOSE c \in cells : c[1] = h)[2]

\* Variant: the headers a row does not define are left out of it.
FlattenRowNoFill(item, headers) ==
    [h \in Keys(OwnCells(item)) |-> CellOf(OwnCells(item), h)]

\* One row of flattenDataForCSV: its own cells, then '' for every header not
\* yet in the row.  A cell is the token sequence of its text (<<>> is '').
FlattenRow(item, headers) ==
    LET own == OwnCells(item)
    IN  [h \in Keys(own) \cup {headers[k] : k \in 1..Len(headers)} |->
            IF h \in Keys(own) THEN CellOf(own, h) ELSE <<>>]

flattenDataForCSV(data, headers) ==
    [k \in 1..Len(data) |-> FlattenRow(data[k], headers)]

InitCombine ==
    /\ mode = "combine"
    /\ concurrent = <<>>
    /\ pricing \in {[prompt |-> "1", completion |-> "2"]}
    /\ entries \in CombineListings
    /\ rows = <<>> /\ idColumn = <<>>
    /\ promptFiles = <<>>
    /\ pc = "start"
    /\ i = 0 /\ tasks = <<>> /\ results = <<>> /\ issued = <<>> /\ disk = {}
    /\ cfg = Unused /\ request = Unused /\ cli = Unused
    /\ \E includeMetadata \in BOOLEAN :
         ctx = [includeMetadata |-> includeMetadata, combinedData |-> <<>>,
                headers |-> <<>>, csvRows |-> <<>>, error |-> "none"]

combineFixed == <<mode, concurrent, pricing, entries, rows, idColumn, promptFiles,
                  tasks, results, issued, cfg, request, cli>>

\* readdir(sourceDirectory) resolves.
CombineReaddir ==
    /\ mode = "combine" /\ pc = "start"
    /\ pc' = "entries"
    /\ UNCHANGED <<i, ctx, disk>>

\* readdir rejects: nothing catches it.
CombineReaddirFails ==
    /\ mode = "combine" /\ pc = "start"
    /\ ctx' = [ctx EXCEPT !.error = "readdir"]
    /\ pc' = "threw"
    /\ UNCHANGED <<i, disk>>

\* stat(filePath) rejects: it stands before the try block (l.456), so the
\* error leaves combineFilesToCSV.
CombineStatFails ==
    /\ mode = "combine" /\ pc = "entries" /\ i < Len(entries)
    /\ ~entries[i + 1].statOk
    /\ ctx' = [ctx EXCEPT !.error = "stat"]
    /\ pc' = "threw"
    /\ UNCHANGED <<i, disk>>

\* One pass of the for loop on an entry that stat accepts.
CombineFile ==
    /\ mode = "combine" /\ pc = "entries" /\ i < Len(entries)
    /\ entries[i + 1].statOk
    /\ LET e == entries[i + 1]
       IN  ctx' = IF e.isFile /\ e.readOk
                  THEN [ctx EXCEPT !.combinedData = Append(@, FileData(e, ctx.includeMetadata))]
                  ELSE ctx
    /\ i' = i + 1
    /\ UNCHANGED <<pc, disk>>

\* After the loop: headers, rows, and the CSV file.
CombineWrite ==
    /\ mode = "combine" /\ pc = "entries" /\ i = Len(entries)
    /\ LET headers == generateCSVHeaders(ctx.combinedData, ctx.includeMetadata)
           csvRows == flattenDataForCSV(ctx.combinedData, headers)
       IN  /\ ctx' = [ctx EXCEPT !.headers = headers, !.csvRows = csvRows]
           /\ disk' = {[path |-> <<"combined", ".", "csv">>, headers |-> headers, records |-> csvRows]}
    /\ pc' = "written"
    /\ UNCHANGED i

NextCombine ==
    \/ CombineReaddir /\ UNCHANGED combineFixed
    \/ CombineReaddirFails /\ UNCHANGED combineFixed
    \/ CombineStatFails /\ UNCHANGED combineFixed
    \/ CombineFile /\ UNCHANGED combineFixed
    \/ CombineWrite /\ UNCHANGED combineFixed

SpecCombine == InitCombine /\ [][NextCombine]_vars

(* ------------- SpecCatalog: fetchAvailableModels ------------------------ *)
\* Longest list in the gateway's response.
MaxModels == 3

\* Identifiers are sequences of tokens; Rank orders the tokens the way
\* localeCompare orders the text they stand for.
Rank(tok) ==
    CASE tok = "anthropic/" -> 1
      [] tok = "claude" -> 2
      [] tok = "deprecated" -> 3
      [] tok = "gpt" -> 4
      [] tok = "openai/" -> 5
      [] tok = "unavailable" -> 6
      [] tok = "zeta/" -> 7
      [] OTHER -> 8

\* a.localeCompare(b): negative, zero or positive.
RECURSIVE LocaleCompare(_, _)
LocaleCompare(a, b) ==
    IF a = <<>> /\ b = <<>> THEN 0
    ELSE IF a = <<>> THEN -1
    ELSE IF b = <<>> THEN 1
    ELSE IF Rank(Head(a)) < Rank(Head(b)) THEN -1
    ELSE IF Rank(Head(a)) > Rank(Head(b)) THEN 1
    ELSE LocaleCompare(Tail(a), Tail(b))

\* id.includes(tok)
Includes(id, tok) == \E k \in 1..Len(id) : id[k] = tok

\* Two entries stand for the list of getPopularModels.
PopularModels == {<<"anthropic/", "claude">>, <<"openai/", "gpt">>}
isPopularModel(id) == id \in PopularModels

ModelIdPool == {<<"anthropic/", "claude">>, <<"openai/", "gpt">>,
                <<"anthropic/", "anthropic/">>, <<"zeta/", "gpt">>,
                <<"openai/", "deprecated", "gpt">>, <<"unavailable">>, <<>>}

\* data.data of the response; tag tells the entries of one response apart.
CatalogResponses ==
    UNION {{[k \in 1..n |-> [id |-> ids[k], tag |-> k]] : ids \in [1..n -> ModelIdPool]} :
             n \in 0..MaxModels}

\* The filter of l.30-34.
IsValidModel(m) ==
    m.id # <<>> /\ ~Includes(m.id, "deprecated") /\ ~Includes(m.id, "unavailable")

\* Variant: the identifiers alone decide the order.
CompareModelsByIdOnly(a, b) == LocaleCompare(a.id, b.id)

\* The comparator of l.37-45.
CompareModels(a, b) ==
    IF isPopularModel(a.id) /\ ~isPopularModel(b.id) THEN -1
    ELSE IF ~isPopularModel(a.id) /\ isPopularModel(b.id) THEN 1
    ELSE LocaleCompare(a.id, b.id)

\* Array.prototype.sort with a consistent comparator: a stable sort.
RECURSIVE InsertModel(_, _)
InsertModel(m, sorted) ==
    IF sorted = <<>> THEN <<m>>
    ELSE IF CompareModels(m, Head(sorted)) < 0 THEN <<m>> \o sorted
    ELSE <<Head(sorted)>> \o InsertModel(m, Tail(sorted))

RECURSIVE SortModels(_)
SortModels(ms) ==
    IF ms = <<>> THEN <<>>
    ELSE InsertModel(ms[Len(ms)], SortModels(SubSeq(ms, 1, Len(ms) - 1)))

fetchAvailableModels(data) == SortModels(SelectSeq(data, IsValidModel))

InitCatalog ==
    /\ mode = "catalog"
    /\ concurrent = <<>>
    /\ pricing \in {[prompt |-> "1", completion |-> "2"]}
    /\ entries = <<>> /\ rows = <<>> /\ idColumn = <<>>
    /\ promptFiles = <<>>
    /\ pc = "start"
    /\ i = 0 /\ tasks = <<>> /\ results = <<>> /\ issued = <<>> /\ disk = {}
    /\ cfg = Unused /\ request = Unused /\ ctx = Unused
    /\ \E data \in CatalogResponses : cli = [data |-> data, models |-> <<>>]

\* The response is ok: filter, sort, return.
FetchAvailableModelsReturns ==
    /\ mode = "catalog" /\ pc = "start"
    /\ cli' = [cli EXCEPT !.models = fetchAvailableModels(cli.data)]
    /\ pc' = "fetched"
    /\ UNCHANGED <<cfg, request, ctx>>

\* A non-ok status or a network error: the wrapped error is thrown.
FetchAvailableModelsThrows ==
    /\ mode = "catalog" /\ pc = "start"
    /\ pc' = "fetchFailed"
    /\ UNCHANGED <<cfg, request, ctx, cli>>

NextCatalog ==
    \/ FetchAvailableModelsReturns /\ UNCHANGED reqFixed
    \/ FetchAvailableModelsThrows /\ UNCHANGED reqFixed

SpecCatalog == InitCatalog /\ [][NextCatalog]_vars

(* ------- SpecSettle: the rejected branch of the allSettled mapping ------ *)
\* The batch loop with tasks that may reject, which is what the else branch
\* of l.164-173 and l.336-347 is written for.
InitSettle ==
    /\ Init
    /\ concurrent \in {<<>>, <<1>>, <<2>>}
    /\ pricing = [prompt |-> "1", completion |-> "2"]

RejectionReason == [reason |-> "rejected before processing"]

\* The promise of task k rejects.
TaskRejects(k) ==
    /\ pc = "await" /\ k \in InFlight
    /\ tasks' = [tasks EXCEPT ![k].st = "rejected", ![k].seq = NextSeq, ![k].res = RejectionReason]
    /\ UNCHANGED <<mode, concurrent, pricing, entries, rows, idColumn, promptFiles, pc, i, results, issued, disk>>

\* Array.prototype.indexOf: the 0-based position of the first element equal
\* to x, or -1.
IndexOf(s, x) ==
    IF \E k \in 1..Len(s) : s[k] = x
    THEN (CHOOSE k \in 1..Len(s) : s[k] = x /\ \A j \in 1..(k - 1) : s[j] # x) - 1
    ELSE -1

\* batchPromises: one promise per task of the batch.
BatchPromises(ts) == [k \in 1..Len(ts) |-> [promise |-> ts[k].item]]

\* What Promise.allSettled resolves with.
SettledOutcomes(ts) ==
    [k \in 1..Len(ts) |->
        IF ts[k].st = "settled" THEN [status |-> "fulfilled", value |-> ts[k].res]
        ELSE [status |-> "rejected", reason |-> ts[k].res]]

\* l.165: i + batchPromises.indexOf(result.reason); l.337: i +
\* batchResults.indexOf(result.reason).  The reason is looked up among the
\* promises, respectively among the outcomes.
RejectedIndex(ts, k) ==
    IF mode = "files" THEN i + IndexOf(BatchPromises(ts), SettledOutcomes(ts)[k].reason)
    ELSE i + IndexOf(SettledOutcomes(ts), SettledOutcomes(ts)[k].reason)

Undefined == [undefined |-> TRUE]

\* The result built in the else branch for outcome k.  In processAll
\* failedFile.name throws when promptFiles[index] is undefined.
RejectedResult(ts, k) ==
    LET x == RejectedIndex(ts, k)
        msg == SettledOutcomes(ts)[k].reason.reason
    IN  IF mode = "files"
        THEN IF x < 0 \/ x >= Len(promptFiles) THEN [throws |-> "TypeError"]
             ELSE [file |-> promptFiles[x + 1].name, success |-> FALSE,
                   result |-> <<>>, error |-> <<msg>>, usage |-> <<>>, cost |-> <<>>]
        ELSE [file |-> <<"row_", ToString(x)>>, success |-> FALSE,
              result |-> <<>>, error |-> <<msg>>, usage |-> <<>>, cost |-> <<>>,
              rowIndex |-> x,
              rowData |-> IF x < 0 \/ x >= Len(rows) THEN Undefined ELSE rows[x + 1],
              outputFilePath |-> <<>>]

MappedResults(ts) ==
    [k \in 1..Len(ts) |->
        IF SettledOutcomes(ts)[k].status = "fulfilled" THEN SettledOutcomes(ts)[k].value
        ELSE RejectedResult(ts, k)]

\* results.push(...batchResults.map(...)); i += concurrency.  An exception
\* in the mapping leaves the loop and the method.
CollectSettledBatch ==
    /\ pc = "await"
    /\ \A k \in 1..Len(tasks) : tasks[k].st \in {"settled", "rejected"}
    /\ IF \E k \in 1..Len(tasks) : MappedResults(tasks)[k] = [throws |-> "TypeError"]
       THEN /\ pc' = "mapThrew"
            /\ UNCHANGED <<results, i>>
       ELSE /\ results' = results \o MappedResults(tasks)
            /\ i' = i + Concurrency
            /\ pc' = "loop"
    /\ UNCHANGED <<mode, concurrent, pricing, entries, rows, idColumn, promptFiles, tasks, issued, disk>>

NextSettle ==
    \/ StartProcessAll /\ UNCHANGED auxVars
    \/ StartProcessCSVRows /\ UNCHANGED auxVars
    \/ DispatchBatch /\ UNCHANGED auxVars
    \/ \E k \in 1..Len(tasks) : RequestFails(k) /\ UNCHANGED auxVars
    \/ \E k \in 1..Len(tasks) : TaskRejects(k) /\ UNCHANGED auxVars
    \/ CollectSettledBatch /\ UNCHANGED auxVars
    \/ Return /\ UNCHANGED auxVars

SpecSettle == InitSettle /\ [][NextSettle]_vars

(* ------------- SpecDialogue: getModelConfiguration ---------------------- *)
\* The questions of l.215-265 in their order.
Questions == <<"webSearch", "reasoning", "reasoningLevel", "customizeSettings",
               "temperature", "maxTokens", "topP">>

\* model.supported_parameters || []
SupportedParameterSets == SUBSET {"reasoning", "temperature", "max_tokens", "top_p"}

Answers(q) ==
    CASE q \in {"webSearch", "reasoning", "customizeSettings"} -> BOOLEAN
      [] q = "reasoningLevel" -> {"off"} \cup ReasoningLevels
      [] OTHER -> {0, 1}

NoAnswers == [q \in {Questions[k] : k \in 1..Len(Questions)} |-> <<>>]

\* Variant: every question is asked.
WhenAlways(q, answers, supported) == TRUE

\* The `when` of each question; a question without one is always asked.
When(q, answers, supported) ==
    CASE q = "reasoning" -> "reasoning" \in supported
      [] q = "reasoningLevel" -> answers["webSearch"] = <<TRUE>>
      [] q = "temperature" -> answers["customizeSettings"] = <<TRUE>> /\ "temperature" \in supported
      [] q = "maxTokens" -> answers["customizeSettings"] = <<TRUE>> /\ "max_tokens" \in supported
      [] q = "topP" -> answers["customizeSettings"] = <<TRUE>> /\ "top_p" \in supported
      [] OTHER -> TRUE

\* l.269-286 and the assembly of getConfiguration, l.154-164.
AssembledConfig(model, answers) ==
    [model |-> model,
     temperature |-> answers["temperature"],
     maxTokens |-> answers["maxTokens"],
     topP |-> answers["topP"],
     frequencyPenalty |-> <<>>, presencePenalty |-> <<>>,
     reasoning |-> IF answers["reasoning"] = <<TRUE>> THEN <<TRUE>> ELSE <<>>,
     webSearch |-> answers["webSearch"],
     reasoningLevel |-> IF answers["reasoningLevel"] # <<"off">>
                        THEN answers["reasoningLevel"] ELSE <<>>]

InitDialogue ==
    /\ mode = "dialogue"
    /\ concurrent = <<>>
    /\ pricing \in {[prompt |-> "1", completion |-> "2"]}
    /\ entries = <<>> /\ rows = <<>> /\ idColumn = <<>>
    /\ promptFiles = <<>>
    /\ pc = "questions"
    /\ i = 0 /\ tasks = <<>> /\ results = <<>> /\ issued = <<>> /\ disk = {}
    /\ cfg = Unused /\ request = Unused /\ ctx = Unused
    /\ \E supported \in SupportedParameterSets :
         cli = [supported |-> supported, q |-> 1, asked |-> {}, answers |-> NoAnswers]

\* inquirer asks the next question, its gate holding, and stores the answer.
AskQuestion ==
    /\ mode = "dialogue" /\ pc = "questions" /\ cli.q <= Len(Questions)
    /\ When(Questions[cli.q], cli.answers, cli.supported)
    /\ \E a \in Answers(Questions[cli.q]) :
         cli' = [cli EXCEPT !.q = @ + 1,
                            !.asked = @ \cup {Questions[cli.q]},
                            !.answers[Questions[cli.q]] = <<a>>]
    /\ UNCHANGED <<pc, cfg, request, ctx>>

\* The gate does not hold: the question is passed over, no answer is stored.
SkipQuestion ==
    /\ mode = "dialogue" /\ pc = "questions" /\ cli.q <= Len(Questions)
    /\ ~When(Questions[cli.q], cli.answers, cli.supported)
    /\ cli' = [cli EXCEPT !.q = @ + 1]
    /\ UNCHANGED <<pc, cfg, request, ctx>>

AssembleConfiguration ==
    /\ mode = "dialogue" /\ pc = "questions" /\ cli.q > Len(Questions)
    /\ cfg' = AssembledConfig(<<"m">>, cli.answers)
    /\ pc' = "assembled"
    /\ UNCHANGED <<request, ctx, cli>>

NextDialogue ==
    \/ AskQuestion /\ UNCHANGED reqFixed
    \/ SkipQuestion /\ UNCHANGED reqFixed
    \/ AssembleConfiguration /\ UNCHANGED reqFixed

SpecDialogue == InitDialogue /\ [][NextDialogue]_vars

(* ------------- SpecContextCommand: runContextualProcessor --------------- *)
InitContextCommand ==
    /\ mode = "contextCommand"
    /\ concurrent = <<>>
    /\ pricing \in {[prompt |-> "1", completion |-> "2"]}
    /\ entries \in DiscListings
    /\ rows = <<>> /\ idColumn = <<>>
    /\ promptFiles = <<>>
    /\ pc = "start"
    /\ i = 0 /\ tasks = <<>> /\ results = <<>> /\ issued = <<>> /\ disk = {}
    /\ cfg = ContextConfig
    /\ request = Unused /\ cli = Unused
    /\ ctx = [mainPromptPath |-> <<>>, mainPromptFile |-> Undefined, contextFiles |-> <<>>]

contextCommandFixed == <<mode, concurrent, pricing, entries, rows, idColumn,
                         i, tasks, issued, cfg, request, cli>>

\* l.446-453: discovery; the command ends when nothing is found.
ContextFindPromptFiles ==
    /\ mode = "contextCommand" /\ pc = "start"
    /\ promptFiles' = findPromptFiles(Directory, entries)
    /\ pc' = IF Len(promptFiles') = 0 THEN "ended" ELSE "select"
    /\ UNCHANGED <<ctx, results, disk>>

ContextReaddirFails ==
    /\ mode = "contextCommand" /\ pc = "start"
    /\ pc' = "exited"
    /\ UNCHANGED <<promptFiles, ctx, results, disk>>

\* Array.prototype.find on the path: the file, or undefined.
FindByPath(files, path) ==
    IF \E k \in 1..Len(files) : files[k].path = path
    THEN files[CHOOSE k \in 1..Len(files) :
                   files[k].path = path /\ \A j \in 1..(k - 1) : files[j].path # path]
    ELSE Undefined

\* The paths fileSelector offers: every regular file under the directory
\* (filter: stats.isFile()).
Selectable ==
    {Join(Directory, entries[k].name) :
       k \in {j \in 1..Len(entries) : entries[j].statOk /\ entries[j].isFile}}

\* l.456-468: the operator picks a path; main prompt and context files.
SelectMainPrompt ==
    /\ mode = "contextCommand" /\ pc = "select"
    /\ \E path \in Selectable :
         ctx' = [mainPromptPath |-> path,
                 mainPromptFile |-> FindByPath(promptFiles, path),
                 contextFiles |-> SelectSeq(promptFiles, LAMBDA f : f.path # path)]
    /\ pc' = "process"
    /\ UNCHANGED <<promptFiles, results, disk>>

\* The selector is left without a choice (nothing to pick, or cancelled): the
\* rejection reaches the handler, which ends the process.
SelectCancelled ==
    /\ mode = "contextCommand" /\ pc = "select"
    /\ pc' = "exited"
    /\ UNCHANGED <<promptFiles, ctx, results, disk>>

\* processContextualPrompt on a main prompt file: a result either way.
ProcessContextualReturns ==
    /\ mode = "contextCommand" /\ pc = "process"
    /\ ctx.mainPromptFile # Undefined
    /\ \/ \E resp \in Responses :
            /\ results' = <<[file |-> ctx.mainPromptFile.name, success |-> TRUE,
                             result |-> <<ResultText(resp)>>, error |-> <<>>,
                             usage |-> resp.usage,
                             cost |-> OrUndefined(ComputeCost(resp.usage, pricing))]>>
            /\ disk' = WriteFile(disk, ctx.mainPromptFile.outputPath, ResultText(resp), 0)
       \/ \E msg \in RequestErrors \cup {WriteError} :
            /\ results' = <<[file |-> ctx.mainPromptFile.name, success |-> FALSE,
                             result |-> <<>>, error |-> <<msg>>,
                             usage |-> <<>>, cost |-> <<>>]>>
            /\ disk' = disk
    /\ pc' = "done"
    /\ UNCHANGED <<promptFiles, ctx>>

\* processContextualPrompt on undefined: mainPromptFile.content throws inside
\* the try block (l.189), and the catch block throws again on
\* mainPromptFile.name (l.283), so the promise rejects.
ProcessContextualRejects ==
    /\ mode = "contextCommand" /\ pc = "process"
    /\ ctx.mainPromptFile = Undefined
    /\ pc' = "escaped"
    /\ UNCHANGED <<promptFiles, ctx, results, disk>>

NextContextCommand ==
    \/ ContextFindPromptFiles /\ UNCHANGED contextCommandFixed
    \/ ContextReaddirFails /\ UNCHANGED contextCommandFixed
    \/ SelectMainPrompt /\ UNCHANGED contextCommandFixed
    \/ SelectCancelled /\ UNCHANGED contextCommandFixed
    \/ ProcessContextualReturns /\ UNCHANGED contextCommandFixed
    \/ ProcessContextualRejects /\ UNCHANGED contextCommandFixed

SpecContextCommand == InitContextCommand /\ [][NextContextCommand]_vars

(* ------------- SpecRun: runProcessor, the run command ------------------- *)
InitRun ==
    /\ mode = "files"
    /\ concurrent \in {<<>>, <<2>>}
    /\ pricing = [prompt |-> "1", completion |-> "2"]
    /\ entries \in Listings
    /\ rows = <<>> /\ idColumn = <<>>
    /\ promptFiles = <<>>
    /\ pc = "start"
    /\ i = 0 /\ tasks = <<>> /\ results = <<>> /\ issued = <<>> /\ disk = {}
    /\ cfg = Unused /\ request = Unused /\ ctx = Unused
    /\ cli = [step |-> "findPromptFiles", found |-> 0, proceed |-> <<>>]

\* l.295-303: discovery by the command; it returns when nothing is found.
RunFindPromptFiles ==
    /\ cli.step = "findPromptFiles"
    /\ LET found == Len(findPromptFiles(Directory, entries))
       IN  cli' = [cli EXCEPT !.found = found,
                              !.step = IF found = 0 THEN "ended" ELSE "confirm"]
    /\ UNCHANGED <<cfg, request, ctx>>

RunReaddirFails ==
    /\ cli.step = "findPromptFiles"
    /\ cli' = [cli EXCEPT !.step = "exited"]
    /\ UNCHANGED <<cfg, request, ctx>>

\* Variant: the answer to the confirmation is not looked at.
ConfirmRunIgnored ==
    /\ cli.step = "confirm"
    /\ \E proceed \in BOOLEAN :
         cli' = [cli EXCEPT !.proceed = <<proceed>>, !.step = "processAll"]
    /\ UNCHANGED <<cfg, request, ctx>>

\* l.316-328: the confirmation; processAll is called only on yes.
ConfirmRun ==
    /\ cli.step = "confirm"
    /\ \E proceed \in BOOLEAN :
         cli' = [cli EXCEPT !.proceed = <<proceed>>,
                            !.step = IF proceed THEN "processAll" ELSE "ended"]
    /\ UNCHANGED <<cfg, request, ctx>>

\* processAll has returned or thrown: the report, or the handler's exit.
RunEnds ==
    /\ cli.step = "processAll" /\ pc \in {"done", "threw", "readdirFailed"}
    /\ cli' = [cli EXCEPT !.step = IF pc = "done" THEN "ended" ELSE "exited"]
    /\ UNCHANGED <<cfg, request, ctx>>

InProcessAll == cli.step = "processAll"

NextRun ==
    \/ RunFindPromptFiles /\ UNCHANGED batchVars
    \/ RunReaddirFails /\ UNCHANGED batchVars
    \/ ConfirmRun /\ UNCHANGED batchVars
    \/ RunEnds /\ UNCHANGED batchVars
    \/ InProcessAll /\ StartProcessAll /\ UNCHANGED auxVars
    \/ InProcessAll /\ ReaddirFails /\ UNCHANGED auxVars
    \/ InProcessAll /\ DispatchBatch /\ UNCHANGED auxVars
    \/ InProcessAll /\ \E k \in 1..Len(tasks) : RequestFails(k) /\ UNCHANGED auxVars
    \/ InProcessAll /\ \E k \in 1..Len(tasks) : RequestCompletes(k) /\ UNCHANGED auxVars
    \/ InProcessAll /\ \E k \in 1..Len(tasks) : WriteSucceeds(k) /\ UNCHANGED auxVars
    \/ InProcessAll /\ \E k \in 1..Len(tasks) : WriteFails(k) /\ UNCHANGED auxVars
    \/ InProcessAll /\ CollectBatch /\ UNCHANGED auxVars
    \/ InProcessAll /\ Return /\ UNCHANGED auxVars

SpecRun == InitRun /\ [][NextRun]_vars

(* ------------------------------- claims -------------------------------- *)
\* The result r is the one of the work item at 0-based position x.
Describes(r, x) ==
    /\ r # NoResult
    /\ IF mode = "files" THEN r.file = promptFiles[x + 1].name
       ELSE r.rowIndex = x /\ r.rowData = rows[x + 1]

IsResult(r) == r # NoResult /\ r.success \in BOOLEAN

\* Some task of the current batch settled before a task placed before it.
SettledOutOfOrder ==
    \E a, b \in 1..Len(tasks) :
        a < b /\ tasks[a].st = "settled" /\ tasks[b].st = "settled" /\ tasks[b].seq < tasks[a].seq

\* C1: work items are dispatched in consecutive batches of the configured
\* concurrency, in input order, only the last batch being smaller, and no
\* item of a batch is dispatched before every item of the batches before it
\* has settled.
C1_ConsecutiveBatches ==
    pc = "await" =>
        /\ Len(tasks) = Min(Concurrency, NumItems - i)
        /\ \A k \in 1..Len(tasks) : tasks[k].item = i + k - 1
        /\ Len(results) = i
        /\ \A k \in 1..Len(results) : IsResult(results[k])

\* C2: the number of requests issued and not yet settled never exceeds the
\* configured concurrency (3 when none is configured).
C2_InFlightWithinConcurrency ==
    InFlight # {} => Cardinality(InFlight) <= Concurrency

\* C3: whatever the order in which the requests of a batch complete, the
\* k-th entry of the result list describes the k-th input item.
C3_InputOrderPreserved ==
    \A k \in 1..Len(results) : Describes(results[k], k - 1)

C3_Witness ==
    /\ pc = "done" /\ Len(results) >= 2 /\ SettledOutOfOrder
    /\ Describes(results[Len(results)], Len(results) - 1)

\* C4: when the run returns, the result list holds exactly one result per
\* input item, whatever the mix of successes and failures.
C4_OneResultPerItem ==
    pc = "done" =>
        /\ Len(results) = NumItems
        /\ \A x \in 0..NumItems - 1 :
             Cardinality({k \in 1..Len(results) : Describes(results[k], x)}) = 1

C4_Witness ==
    /\ pc = "done" /\ Len(results) = NumItems /\ NumItems >= 2
    /\ \E a, b \in 1..Len(results) : results[a].success /\ ~results[b].success

\* C5: a failure of one work item never keeps another item from being
\* dispatched and getting its own result: between batches every dispatched
\* item has its result, failed siblings or not, and a run that returns has
\* dispatched every item.
C5_FailureIsolated ==
    /\ pc \in {"loop", "done"} =>
          \A x \in 0..NumItems - 1 :
              issued[x + 1] >= 1 => \E k \in 1..Len(results) : Describes(results[k], x)
    /\ pc = "done" => \A x \in 0..NumItems - 1 : issued[x + 1] >= 1

C5_Witness ==
    /\ pc = "done" /\ NumItems >= 3 /\ Concurrency = 2
    /\ ~results[1].success /\ results[2].success /\ results[3].success

\* C6: every work item causes at most one chat-completion request; a failed
\* item is never requested again.
C6_AtMostOneRequest ==
    \A x \in 1..Len(issued) : issued[x] <= 1

C6_Witness ==
    /\ pc = "done"
    /\ \E k \in 1..Len(results) :
         ~results[k].success /\ results[k].error = <<"network">> /\ issued[k] = 1

\* C7: processPrompt never lets an exception escape: every failure gives a
\* result with success = false, the file name and the error message, and
\* success = true only after the output file was written.
C7_ProcessPromptNeverThrows ==
    mode = "files" =>
        \A k \in 1..Len(tasks) :
            /\ tasks[k].st \in {"request", "write", "settled"}
            /\ tasks[k].st = "settled" =>
                 LET r == tasks[k].res
                 IN  /\ IsResult(r)
                     /\ r.file = promptFiles[tasks[k].item + 1].name
                     /\ ~r.success => r.error # <<>>
                     /\ r.success =>
                          \E w \in disk : w.path = promptFiles[tasks[k].item + 1].outputPath

C7_Witness ==
    /\ mode = "files" /\ Len(tasks) >= 3
    /\ tasks[1].st = "settled" /\ tasks[1].res.error = <<"rejected">>
    /\ tasks[2].st = "settled" /\ tasks[2].res.error = <<WriteError>>
    /\ tasks[3].st = "settled" /\ tasks[3].res.success

\* C8: the prompt files of one discovery have pairwise distinct output
\* paths, so no two work items write the same output file.
C8_DistinctOutputPaths ==
    \A a, b \in 1..Len(promptFiles) :
        a # b => promptFiles[a].outputPath # promptFiles[b].outputPath

\* C9: a successful result whose response carried usage counts has a cost of
\* prompt_tokens * promptPrice + completion_tokens * completionPrice, zero
\* token counts and zero prices included.
C9_CostFormula ==
    \A k \in 1..Len(tasks) :
        (/\ tasks[k].st = "settled" /\ tasks[k].res.success
         /\ tasks[k].res.usage # <<>>
         /\ ParseFloat(pricing.prompt) # <<>> /\ ParseFloat(pricing.completion) # <<>>) =>
            tasks[k].res.cost =
                << tasks[k].res.usage[1].prompt_tokens * ParseFloat(pricing.prompt)[1]
                   + tasks[k].res.usage[1].completion_tokens * ParseFloat(pricing.completion)[1] >>

\* C10: a cost that is present is non-negative; a result without usage
\* information has no cost; a failed result has no cost.
C10_CostNonNegativeOrAbsent ==
    \A k \in 1..Len(results) :
        LET r == results[k]
        IN  /\ r.cost # <<>> => r.cost[1] >= 0
            /\ r.usage = <<>> => r.cost = <<>>
            /\ ~r.success => r.cost = <<>>

\* C11: when discovery yields no prompt file, processAll fails with the
\* no-files error without issuing any request or writing any file.
C11_NoFilesFails ==
    (mode = "files" /\ pc \notin {"start", "readdirFailed"} /\ Len(promptFiles) = 0) =>
        /\ pc = "threw"
        /\ tasks = <<>> /\ issued = <<>> /\ results = <<>>
        /\ disk = {}

C11_Witness ==
    /\ mode = "files" /\ pc = "threw" /\ Len(entries) >= 2
    /\ promptFiles = <<>> /\ disk = {}

\* C16: a CSV row's identifier is its value in the identifier column when
\* one is configured and the row has a value for it, row_<index> (index =
\* 0-based position of the row) otherwise; the output path is
\* <outputDir>/<identifier>_result.txt and a successful result reports that
\* path and that row index.
C16_Expected(x) ==
    LET row == rows[x + 1]
    IN  IF idColumn = <<"id">> /\ row.id # <<>> THEN row.id
        ELSE <<"row_", ToString(x)>>

C16_RowIdentifier ==
    mode = "csv" =>
        \A k \in 1..Len(tasks) :
            tasks[k].st = "settled" =>
                LET r == tasks[k].res
                    x == tasks[k].item
                IN  /\ r.file = C16_Expected(x) \o <<"_result", ".", "txt">>
                    /\ r.rowIndex = x
                    /\ r.success =>
                         /\ r.outputFilePath = OutputDirectory \o <<"/">> \o r.file
                         /\ \E w \in disk : w.path = r.outputFilePath

C16_Witness ==
    /\ mode = "csv" /\ idColumn = <<"id">> /\ pc = "done" /\ Len(results) >= 2
    /\ results[1].success /\ results[1].file = <<"x", "_result", ".", "txt">>
    /\ results[2].success /\ results[2].file = <<"row_", "1", "_result", ".", "txt">>

\* A name with extension .txt or .md, or with none (no dot past its first
\* character), and the name without that extension.
C19_PromptName(n) ==
    \/ Len(n) >= 3 /\ n[Len(n) - 1] = "." /\ n[Len(n)] \in {"txt", "md"}
    \/ \A k \in 2..Len(n) : n[k] # "."
C19_Stem(n) ==
    IF Len(n) >= 3 /\ n[Len(n) - 1] = "." /\ n[Len(n)] \in {"txt", "md"}
    THEN SubSeq(n, 1, Len(n) - 2) ELSE n
C19_Qualifies(e) == e.statOk /\ e.isFile /\ e.readOk /\ C19_PromptName(e.name)
C19_Qualifying == {j \in 1..Len(entries) : C19_Qualifies(entries[j])}
\* The k-th qualifying entry in listing order.
C19_Nth(k) == CHOOSE j \in C19_Qualifying :
                 Cardinality({q \in C19_Qualifying : q <= j}) = k
\* c is t with the whitespace at both ends removed.
C19_Trimmed(c, t) ==
    /\ c # <<>> => c[1] # " " /\ c[Len(c)] # " "
    /\ \E a, b \in 0..Len(t) :
         /\ a + Len(c) + b = Len(t)
         /\ \A k \in 1..Len(t) :
              IF k <= a \/ k > a + Len(c) THEN t[k] = " " ELSE t[k] = c[k - a]

\* C19: discovery returns, in listing order, exactly one PromptFile per
\* entry that is a readable regular file with extension .txt, .md or none,
\* with trimmed content and output path <dir>/<baseName>_result.txt; nothing
\* else appears, and a listing without such an entry gives the empty list.
C19_DiscoveryExact ==
    pc = "discovered" =>
        /\ Len(promptFiles) = Cardinality(C19_Qualifying)
        /\ \A k \in 1..Len(promptFiles) :
             LET e == entries[C19_Nth(k)]
                 f == promptFiles[k]
             IN  /\ f.name = e.name
                 /\ f.path = Directory \o <<"/">> \o e.name
                 /\ C19_Trimmed(f.content, e.content)
                 /\ f.outputPath = Directory \o <<"/">> \o C19_Stem(e.name) \o <<"_result", ".", "txt">>

C19_Witness ==
    /\ pc = "discovered" /\ Len(entries) = 3 /\ Len(promptFiles) = 2
    /\ entries[2].name = <<"c", ".", "json">> /\ entries[2].isFile /\ entries[2].readOk
    /\ promptFiles[1].name = <<"a", ".", "txt">> /\ promptFiles[1].content = <<"p">>
    /\ promptFiles[2].name = <<".", "env">>

\* C20: an entry that cannot be stat'ed or read is only skipped: every other
\* entry is still examined and returned, and the failing entry is not.
C20_EntryFailureSkipsOnlyThatEntry ==
    pc = "discovered" =>
        \A j \in 1..Len(entries) :
            LET found == \E k \in 1..Len(promptFiles) : promptFiles[k].name = entries[j].name
            IN  /\ C19_Qualifies(entries[j]) => found
                /\ (~entries[j].statOk \/ ~entries[j].readOk) => ~found

C20_Witness ==
    /\ pc = "discovered" /\ Len(entries) = 3 /\ Len(promptFiles) = 1
    /\ ~entries[1].statOk
    /\ entries[2].statOk /\ entries[2].isFile /\ ~entries[2].readOk
    /\ promptFiles[1].name = entries[3].name

\* C12: every request is shaped by the web-search setting in exactly one of
\* three ways: off gives the unmodified model identifier and no search option;
\* on with a level gives the unmodified identifier and a search-context-size
\* option of that level; on without a level gives the identifier suffixed
\* with ":online" and no search option.  Suffix and option never go together.
C12_WebSearchShaping ==
    (mode = "request" /\ pc # "start") =>
        LET on == cfg.webSearch = <<TRUE>>
            level == cfg.reasoningLevel
            suffixed == request.model = cfg.model \o <<":online">>
            plain == request.model = cfg.model
            option == request.web_search_options
        IN  /\ ~on => plain /\ option = <<>>
            /\ (on /\ level # <<>>) => plain /\ option = <<[search_context_size |-> level[1]]>>
            /\ (on /\ level = <<>>) => suffixed /\ option = <<>>
            /\ ~(suffixed /\ option # <<>>)

C12_Witness ==
    /\ mode = "request" /\ pc = "csvRow"
    /\ cfg.webSearch = <<TRUE>> /\ cfg.reasoningLevel = <<"medium">>
    /\ request.model = <<"n", ":free">>
    /\ request.web_search_options = <<[search_context_size |-> "medium"]>>

\* C15: for the same configuration the contextual request carries the same
\* request parameters as the request of processPrompt (model identifier,
\* temperature, max tokens, top-p, frequency penalty, presence penalty,
\* web-search option, reasoning directive); only the message list differs.
C15_ContextualSameParameters ==
    (mode = "request" /\ pc = "contextual") =>
        [request EXCEPT !.messages = PromptMessages] = PromptRequest(cfg)

\* C17: once a catalog fetch has returned successfully, no later
\* configuration resolution of the process issues another catalog fetch, and
\* the cached list is never changed afterwards.
C17_CatalogFetchedOnce ==
    (mode = "cli" /\ cli.fetchedOk) =>
        /\ cli.refetches = 0
        /\ cli.modelCache = cli.firstList

C17_Witness ==
    /\ mode = "cli" /\ cli.runs = 2 /\ pc = "selectModel"
    /\ cli.fetchedOk /\ cli.fetches = 1
    /\ cli.modelCache = << <<"m">>, <<"n", ":free">> >>

\* C18: when the credential test fails (401, another non-success status, or
\* a network failure), configuration resolution aborts with the
\* invalid-credential error, and that invocation attempts no model selection,
\* no parameter question and no chat-completion request.
C18_InvalidKeyAborts ==
    (mode = "cli" /\ cli.keyTest \in KeyRejections) =>
        /\ pc = "exited"
        /\ cli.error = InvalidKeyError
        /\ ~cli.selectionAttempted /\ ~cli.questionsAsked /\ cli.chatRequests = 0

C18_Witness ==
    /\ mode = "cli" /\ pc = "exited" /\ cli.keyTest = "network"
    /\ cli.runs = 2 /\ cli.modelCache # <<>>

\* The placeholders the injection pattern finds in the main prompt, as pairs
\* of positions of the opening and closing braces.
RECURSIVE C13_Placeholders(_, _)
C13_Placeholders(text, p) ==
    IF p > Len(text) THEN {}
    ELSE IF CloseOf(text, p) = 0 THEN C13_Placeholders(text, p + 1)
    ELSE {<<p, CloseOf(text, p)>>} \cup C13_Placeholders(text, CloseOf(text, p) + 1)
C13_Referenced(f) ==
    \E m \in C13_Placeholders(ctx.main, 1) :
        Trim(SubSeq(ctx.main, m[1] + 1, m[2] - 1)) = f.name
\* s occurs in t as a run of consecutive tokens.
C13_Occurs(s, t) ==
    \E a \in 0..(Len(t) - Len(s)) : SubSeq(t, a + 1, a + Len(s)) = s
C13_UserContent == request.messages[Len(request.messages)].content
C13_Block ==
    IF Len(request.messages) = 2 THEN request.messages[1].block ELSE <<>>
C13_InBlock(f) ==
    \E k \in 1..Len(C13_Block) :
        C13_Block[k] = [name |-> f.name, content |-> f.content]

\* C13: every context file is used in exactly one way: a file referenced by a
\* placeholder has its content substituted into the user message and is not
\* in the system context block; a file not referenced is in the context
\* block and not injected; none is used both ways and none is dropped.
C13_ContextFileUsedOneWay ==
    (mode = "contextual" /\ pc # "start") =>
        /\ request.messages[Len(request.messages)].role = "user"
        /\ \A k \in 1..Len(ctx.files) :
             LET f == ctx.files[k]
             IN  IF C13_Referenced(f)
                 THEN C13_Occurs(f.content, C13_UserContent) /\ ~C13_InBlock(f)
                 ELSE C13_InBlock(f) /\ ~C13_Occurs(f.content, C13_UserContent)
        /\ Len(C13_Block) <= Len(ctx.files)

C13_Witness ==
    /\ mode = "contextual" /\ pc = "done"
    /\ ctx.main = <<"zz", "{{", " ", "a", "}}">>
    /\ ctx.files = <<ContextFileA, ContextFileB>>
    /\ C13_UserContent = <<"zz", "A1", "A2">>
    /\ C13_Block = <<[name |-> <<"b">>, content |-> <<"B1">>]>>
    /\ results[1].success

\* C14: a placeholder whose trimmed name matches no context file is replaced
\* by the marker [Warning: Context file "<name>" not found] carrying that
\* name, with or without whitespace inside the braces, and the request is
\* still issued.
C14_MissingFileMarker ==
    (mode = "contextual" /\ pc # "start") =>
        /\ request # Unused
        /\ \A m \in C13_Placeholders(ctx.main, 1) :
             LET name == Trim(SubSeq(ctx.main, m[1] + 1, m[2] - 1))
             IN  (\A k \in 1..Len(ctx.files) : ctx.files[k].name # name) =>
                     C13_Occurs(<<MarkerOpen>> \o name \o <<MarkerClose>>, C13_UserContent)

\* The batch a work item belongs to.
C25_BatchOf(item) == item \div Concurrency

\* C25: CSV rows that resolve to the same output identifier are all
\* processed and reported with the same output path; no error is raised, and
\* the file holds the text of the last write: one of the successful rows of
\* the latest batch that wrote to it.
C25_LastWriteWins ==
    (mode = "csv" /\ pc = "done") =>
        \A j, k \in 1..Len(results) :
            (j < k /\ results[j].success /\ results[k].success
                   /\ results[j].outputFilePath = results[k].outputFilePath) =>
                \E w \in disk :
                    /\ w.path = results[k].outputFilePath
                    /\ \A v \in disk : v.path = w.path => v = w
                    /\ results[w.by + 1].success
                    /\ results[w.by + 1].outputFilePath = w.path
                    /\ <<w.text>> = results[w.by + 1].result
                    /\ \A m \in 1..Len(results) :
                         (results[m].success /\ results[m].outputFilePath = w.path) =>
                             C25_BatchOf(m - 1) <= C25_BatchOf(w.by)

\* Two rows of one batch share the path, both succeed with different texts,
\* and the file holds the text of the first row.
C25_Witness ==
    /\ mode = "csv" /\ pc = "done" /\ Len(results) = 2 /\ Concurrency >= 2
    /\ results[1].success /\ results[2].success
    /\ results[1].outputFilePath = results[2].outputFilePath
    /\ results[1].result # results[2].result
    /\ \E w \in disk : w.by = 0 /\ <<w.text>> = results[1].result

C28_OutputNeverAPromptFile ==
    mode = "files" =>
        \A w \in disk : \A k \in 1..Len(promptFiles) : promptFiles[k].path # w.path

\* C21: in combine mode a per-entry error never aborts the combination: an
\* entry that cannot be read or inspected is skipped and the others are
\* still written, and a .json file that fails to parse is still a row, with
\* file type 'other' and its parse error.
C21_EntryErrorNeverAborts ==
    mode = "combine" =>
        /\ pc = "threw" => ctx.error = "readdir"
        /\ pc = "written" =>
             \A j \in 1..Len(entries) :
                 LET e == entries[j]
                     rowsOf == {k \in 1..Len(ctx.csvRows) : ctx.csvRows[k]["filename"] = e.name}
                 IN  /\ (e.statOk /\ e.isFile /\ e.readOk) => Cardinality(rowsOf) = 1
                     /\ (~e.statOk \/ ~e.readOk) => rowsOf = {}
                     /\ (e.statOk /\ e.isFile /\ e.readOk /\ e.content = "{bad") =>
                          \A k \in rowsOf :
                              /\ ctx.csvRows[k]["fileType"] = <<"other">>
                              /\ ctx.csvRows[k]["parseError"] # <<>>

\* The top-level keys of an included JSON entry.
C22_JsonKeys(item) ==
    IF item.fileType = "json" /\ item.content.type \in {"object", "array"}
    THEN {item.content.fields[k][1] : k \in 1..Len(item.content.fields)}
    ELSE {}
C22_ExpectedHeaders ==
    LET data == ctx.combinedData
        items == {data[k] : k \in 1..Len(data)}
    IN  {"filename", "filepath", "fileType"}
        \cup (IF ctx.includeMetadata THEN {"size", "created", "modified"} ELSE {})
        \cup UNION {{"json_" \o key : key \in C22_JsonKeys(item)} : item \in items}
        \cup (IF \E item \in items : item.fileType = "text" THEN {"text_content"} ELSE {})
        \cup (IF \E item \in items : item.parseError # <<>> THEN {"parseError"} ELSE {})

\* C22: the header set is the union over the included entries of the three
\* base columns, the metadata columns when requested, json_<key> for every
\* top-level key of a JSON entry, text_content when some entry is text and
\* parseError when some entry has one; each row has a cell for exactly the
\* headers, empty where the entry defines none.
C22_HeaderUnionAndFullRows ==
    (mode = "combine" /\ pc = "written") =>
        LET hs == {ctx.headers[k] : k \in 1..Len(ctx.headers)}
        IN  /\ hs = C22_ExpectedHeaders
            /\ Cardinality(hs) = Len(ctx.headers)
            /\ Len(ctx.csvRows) = Len(ctx.combinedData)
            /\ \A k \in 1..Len(ctx.csvRows) :
                 LET item == ctx.combinedData[k]
                     row == ctx.csvRows[k]
                 IN  /\ DOMAIN row = hs
                     /\ \A key \in hs \ {"filename", "filepath", "fileType"} :
                          LET defined ==
                                \/ key \in {"size", "created", "modified"}
                                \/ key = "text_content" /\ item.fileType = "text"
                                \/ key = "parseError" /\ item.parseError # <<>>
                                \/ \E jk \in C22_JsonKeys(item) : key = "json_" \o jk
                          IN  ~defined => row[key] = <<>>
                     /\ item.fileType = "text" /\ item.content.text # "" =>
                          row["text_content"] = <<item.content.text>>
                     /\ (item.fileType = "json" /\ item.content.type \in {"object", "array"}) =>
                          \A f \in 1..Len(item.content.fields) :
                              LET key == item.content.fields[f][1]
                                  text == item.content.fields[f][2]
                              IN  row["json_" \o key] = IF text = "" THEN <<>> ELSE <<text>>

C22_Witness ==
    /\ mode = "combine" /\ pc = "written" /\ Len(ctx.csvRows) = 2
    /\ ctx.headers = <<"filename", "filepath", "fileType", "json_a", "json_b", "json_c">>
    /\ ctx.csvRows[1]["json_a"] = <<"1">> /\ ctx.csvRows[1]["json_b"] = <<>>
    /\ ctx.csvRows[2]["json_a"] = <<>> /\ ctx.csvRows[2]["json_b"] = <<"{}">>

\* C23: the list returned by a successful catalog fetch has no entry with an
\* empty identifier or one containing 'deprecated' or 'unavailable', has
\* every other fetched entry exactly once, and is ordered with no
\* non-popular identifier before a popular one and identifiers ascending
\* within each group.
C23_CatalogFilteredAndSorted ==
    (mode = "catalog" /\ pc = "fetched") =>
        LET ms == cli.models
            bad(m) == \/ m.id = <<>>
                      \/ \E k \in 1..Len(m.id) : m.id[k] \in {"deprecated", "unavailable"}
        IN  /\ \A k \in 1..Len(ms) : ~bad(ms[k])
            /\ \A k \in 1..Len(ms) : \E d \in 1..Len(cli.data) : cli.data[d] = ms[k]
            /\ \A d \in 1..Len(cli.data) :
                 ~bad(cli.data[d]) =>
                     Cardinality({k \in 1..Len(ms) : ms[k] = cli.data[d]}) = 1
            /\ \A j, k \in 1..Len(ms) :
                 j < k =>
                     /\ ~(ms[j].id \notin PopularModels /\ ms[k].id \in PopularModels)
                     /\ ((ms[j].id \in PopularModels) = (ms[k].id \in PopularModels)) =>
                          LocaleCompare(ms[j].id, ms[k].id) <= 0

C23_Witness ==
    /\ mode = "catalog" /\ pc = "fetched"
    /\ Len(cli.data) = 3
    /\ cli.data[1].id = <<"zeta/", "gpt">>
    /\ cli.data[2].id = <<"openai/", "deprecated", "gpt">>
    /\ cli.data[3].id = <<"anthropic/", "claude">>
    /\ Len(cli.models) = 2
    /\ cli.models[1].id = <<"anthropic/", "claude">>
    /\ cli.models[2].id = <<"zeta/", "gpt">>

\* C24: when a task of a batch settles as rejected, the loop produces a
\* failed result for that same item (in processAll the name of the file at
\* the task's position, in processCSVRows row_<index> with the index and
\* data of the task's row), and the loop itself does not fail.
C24_RejectedTaskMappedToItsItem ==
    /\ pc # "mapThrew"
    /\ pc \in {"loop", "done"} =>
         \A k \in 1..Len(tasks) :
             tasks[k].st = "rejected" =>
                 LET x == tasks[k].item
                     r == results[x + 1]
                 IN  /\ ~r.success
                     /\ mode = "files" => r.file = promptFiles[x + 1].name
                     /\ mode = "csv" =>
                          /\ r.file = <<"row_", ToString(x)>>
                          /\ r.rowIndex = x
                          /\ r.rowData = rows[x + 1]

\* C26: each question of the parameter dialogue is asked only when its gate
\* holds (reasoning: the model declares 'reasoning'; context size: web
\* search answered yes; temperature, max tokens, top-p: customization
\* answered yes and the model declares the parameter), 'off' yields no
\* level, and the assembled configuration has a level only with web search
\* enabled and a reasoning flag only for a model that supports reasoning.
C26_QuestionsGated ==
    mode = "dialogue" =>
        /\ "reasoning" \in cli.asked => "reasoning" \in cli.supported
        /\ "reasoningLevel" \in cli.asked => cli.answers["webSearch"] = <<TRUE>>
        /\ "temperature" \in cli.asked =>
             cli.answers["customizeSettings"] = <<TRUE>> /\ "temperature" \in cli.supported
        /\ "maxTokens" \in cli.asked =>
             cli.answers["customizeSettings"] = <<TRUE>> /\ "max_tokens" \in cli.supported
        /\ "topP" \in cli.asked =>
             cli.answers["customizeSettings"] = <<TRUE>> /\ "top_p" \in cli.supported
        /\ \A q \in DOMAIN cli.answers : cli.answers[q] # <<>> => q \in cli.asked
        /\ pc = "assembled" =>
             /\ cfg.reasoningLevel # <<>> =>
                  cfg.webSearch = <<TRUE>> /\ cfg.reasoningLevel[1] \in {"low", "medium", "high"}
             /\ cli.answers["reasoningLevel"] = <<"off">> => cfg.reasoningLevel = <<>>
             /\ cfg.reasoning # <<>> => "reasoning" \in cli.supported
             /\ cfg.temperature # <<>> => "temperature" \in cli.supported
             /\ cfg.maxTokens # <<>> => "max_tokens" \in cli.supported
             /\ cfg.topP # <<>> => "top_p" \in cli.supported

C26_Witness ==
    /\ mode = "dialogue" /\ pc = "assembled"
    /\ cli.supported = {"reasoning", "top_p"}
    /\ cli.asked = {"webSearch", "reasoning", "reasoningLevel", "customizeSettings", "topP"}
    /\ cli.answers["reasoningLevel"] = <<"off">>
    /\ cfg.webSearch = <<TRUE>> /\ cfg.reasoningLevel = <<>> /\ cfg.reasoning = <<TRUE>>
    /\ cfg.topP = <<1>> /\ cfg.temperature = <<>>

\* C29: in the context command the main prompt handed to contextual
\* processing is one of the discovered prompt files and the context list is
\* exactly the other discovered files; whatever the operator picks,
\* contextual processing returns a result and no exception escapes it.
C29_MainPromptIsDiscovered ==
    (mode = "contextCommand" /\ pc \in {"process", "done", "escaped"}) =>
        /\ \E k \in 1..Len(promptFiles) :
             /\ ctx.mainPromptFile = promptFiles[k]
             /\ ctx.contextFiles =
                  SubSeq(promptFiles, 1, k - 1) \o SubSeq(promptFiles, k + 1, Len(promptFiles))
        /\ pc # "escaped"
        /\ pc = "done" => Len(results) = 1 /\ results[1].file = ctx.mainPromptFile.name

\* C30: in the run command no chat-completion request is issued and no
\* output file is written before the operator has answered the confirmation
\* with yes; when the operator declines, or discovery finds no prompt file,
\* the command ends without a request and without a file.
C30_NothingBeforeConfirmation ==
    (mode = "files" /\ cli # Unused /\ cli.proceed # <<TRUE>>) =>
        /\ \A k \in 1..Len(issued) : issued[k] = 0
        /\ tasks = <<>> /\ results = <<>>
        /\ disk = {}
        /\ cli.step \in {"findPromptFiles", "confirm", "ended", "exited"}
        /\ cli.proceed = <<FALSE>> => cli.step = "ended"
        /\ (cli.step = "ended" /\ cli.proceed = <<>>) => cli.found = 0

C30_Witness ==
    /\ mode = "files" /\ cli # Unused
    /\ cli.step = "ended" /\ cli.proceed = <<FALSE>> /\ cli.found = 2
    /\ disk = {} /\ tasks = <<>>

====
